---- MODULE Spec2Model ----
(***************************************************************************)
(* A model of the component registration and live-DOM binding engine of    *)
(* tinymce-components: the Component constructor (src/component.js) and    *)
(* the ComponentsManager (src/bootstrap5-components.js): registry,         *)
(* placement rules, instantiation with slot filling, property binding,     *)
(* drag/drop controller, selection and filtered output.                    *)
(***************************************************************************)
EXTENDS Integers, Sequences, FiniteSets, TLC

VARIABLES
  components,       \* this.components: the Map from component id to definition
  dom,              \* the editor document: node -> node record
  placeholder,      \* this.placeholder: a node, or 0 for null
  selectedElement,  \* this.selectedElement: a node, or 0 for null
  drag,             \* the running drag gesture and its dataTransfer payload
  timers,           \* pending setTimeout callbacks of the dragend handlers
  last,             \* what the last handler did (its name, result, exception)
  pdef,             \* property binding: the descriptor under test
  pel,              \* property binding: the element's data-prop-* attributes
  pres,             \* property binding: the last write and the read after it
  styles,           \* this.styles: the Map from style name to declarations
  estyle,           \* style binding: the inline style of the element under test
  sres,             \* style binding: the last style operation and its result
  panel,            \* the properties panel as rendered last
  inj,              \* this.editorStyles, the injected stylesheet, pending retries
  lay               \* a layers-container element: its layers and the state of its listeners

\* the style registry, the style binding, the properties panel and the
\* editor-style injection
more == <<styles, estyle, sres, panel, inj, lay>>

vars == <<components, dom, placeholder, selectedElement, drag, timers, last,
          pdef, pel, pres, more>>

-----------------------------------------------------------------------------
(* Bounds of the model *)

MaxNodes == 9        \* DOM nodes that exist at one time
MaxCollide == 1      \* a random instance id may repeat one of this many ids in use
MaxCount == 2        \* largest count of a synthetic slot fill spec
MaxTimers == 1       \* dragend timers pending at one time
MaxGestures == 2     \* drag gestures of one editing session
MaxBefore == 0       \* instances in the document when insertComponent is called directly

-----------------------------------------------------------------------------
(* JavaScript values, tagged by typeof *)

Undef == [t |-> "undefined"]
Null == [t |-> "null"]
NaN == [t |-> "nan"]
Str(s) == [t |-> "string", s |-> s]
Num(n) == [t |-> "number", n |-> n]
Bool(b) == [t |-> "boolean", b |-> b]
\* an object literal: its own keys in insertion order, and their values
Obj(keys, vals) == [t |-> "object", keys |-> keys, vals |-> vals]
Arr(items) == [t |-> "array", items |-> items]

Truthy(v) ==
  CASE v.t = "undefined" -> FALSE
    [] v.t = "null" -> FALSE
    [] v.t = "nan" -> FALSE
    [] v.t = "string" -> v.s # ""
    [] v.t = "number" -> v.n # 0
    [] v.t = "boolean" -> v.b
    [] OTHER -> TRUE

\* some of the members every array inherits from Array.prototype
ArrayMembers == {"filter", "map", "find", "keys", "values", "entries"}

\* o[k]: the value of an own key of an object literal, the inherited function
\* for a member name read from an array, undefined otherwise (the keys read
\* from object literals, strings and numbers, id, count, clearExisting and slot
\* names, are no built-in property of these)
Get(o, k) ==
  IF o.t = "object" /\ \E i \in 1..Len(o.keys) : o.keys[i] = k
  THEN o.vals[CHOOSE i \in 1..Len(o.keys) : o.keys[i] = k]
  ELSE IF o.t = "array" /\ k \in ArrayMembers THEN [t |-> "function"]
  ELSE Undef

\* typeof v === "object" (true of null, of arrays and of object literals)
TypeofObject(v) == v.t \in {"object", "array", "null"}

SeqToSet(s) == {s[i] : i \in 1..Len(s)}

-----------------------------------------------------------------------------
(* Sequences *)

IndexOf(s, x) == IF \E i \in 1..Len(s) : s[i] = x
                 THEN CHOOSE i \in 1..Len(s) : s[i] = x /\ \A j \in 1..(i - 1) : s[j] # x
                 ELSE 0

Without(s, x) == SelectSeq(s, LAMBDA y : y # x)

\* s with x put in front of position i (i = Len(s) + 1 appends)
InsertAt(s, i, x) == SubSeq(s, 1, i - 1) \o <<x>> \o SubSeq(s, i, Len(s))

RECURSIVE Flatten(_)
Flatten(ss) == IF ss = <<>> THEN <<>> ELSE Head(ss) \o Flatten(Tail(ss))

-----------------------------------------------------------------------------
(* The editor document.  A node record carries what the manager reads and     *)
(* writes: the node type, the tag, the ordered children, the text length of a *)
(* text node, the class list, data-component, data-instance-id (0: absent),   *)
(* data-component-children, the data-prop-* attributes, the draggable         *)
(* attribute and the dragstart listeners attached to the node.                *)

Nodes == 1..MaxNodes
Html == 1     \* doc.documentElement, the child of the Document node
Body == 2     \* doc.body

FreeNode == [kind |-> "free", tag |-> "", kids |-> <<>>, len |-> 0, cls |-> {},
             comp |-> "", inst |-> 0, slot |-> "", props |-> <<>>,
             draggable |-> FALSE, lsn |-> {}]

Element(tag, cls) == [FreeNode EXCEPT !.kind = "elem", !.tag = tag, !.cls = cls]
TextNode(len) == [FreeNode EXCEPT !.kind = "text", !.tag = "#text", !.len = len]

IsElem(d, n) == n \in Nodes /\ d[n].kind = "elem"
IsText(d, n) == n \in Nodes /\ d[n].kind = "text"

Parent(d, n) == IF \E p \in Nodes : IndexOf(d[p].kids, n) # 0
                THEN CHOOSE p \in Nodes : IndexOf(d[p].kids, n) # 0
                ELSE 0

\* n and its ancestors
RECURSIVE AncSet(_, _)
AncSet(d, n) == IF n = 0 THEN {} ELSE {n} \cup AncSet(d, Parent(d, n))

\* a.contains(b)
Contains(d, a, b) == a # 0 /\ b # 0 /\ a \in AncSet(d, b)

\* n is connected: in the tree of the document element
InDoc(d, n) == n # 0 /\ Html \in AncSet(d, n)

\* n and its descendants in document (pre-)order
RECURSIVE DocOrder(_, _)
DocOrder(d, n) ==
  <<n>> \o Flatten([i \in 1..Len(d[n].kids) |-> DocOrder(d, d[n].kids[i])])

Descendants(d, n) == Tail(DocOrder(d, n))

\* n.remove()
Detach(d, n) ==
  LET p == Parent(d, n)
  IN IF p = 0 THEN d ELSE [d EXCEPT ![p].kids = Without(@, n)]

\* p.insertBefore(c, ref), ref = 0 for p.appendChild(c); c is no ancestor of p
InsertBefore(d, p, c, ref) ==
  LET d1 == Detach(d, c)
      i == IF ref = 0 THEN Len(d1[p].kids) + 1 ELSE IndexOf(d1[p].kids, ref)
  IN [d1 EXCEPT ![p].kids = InsertAt(@, i, c)]

\* the node after n among its parent's children, 0 when n is the last
NextSibling(d, n) ==
  LET p == Parent(d, n)
      i == IndexOf(d[p].kids, n)
  IN IF p = 0 \/ i = Len(d[p].kids) THEN 0 ELSE d[p].kids[i + 1]

\* old.replaceWith(new) throws HierarchyRequestError when new is an inclusive
\* ancestor of old's parent
ReplaceThrows(d, old, new) ==
  Parent(d, old) # 0 /\ new \in AncSet(d, Parent(d, old))

\* old.replaceWith(new): nothing when old has no parent; otherwise new leaves
\* its place and takes old's
ReplaceWith(d, old, new) ==
  LET p == Parent(d, old)
  IN IF p = 0 \/ new = old THEN d
     ELSE LET d1 == Detach(d, new)
              i == IndexOf(d1[p].kids, old)
          IN [d1 EXCEPT ![p].kids = [@ EXCEPT ![i] = new]]

\* the nodes no reference of the manager can reach any more are released
Collect(d, refs) ==
  LET Top(n) == CHOOSE a \in AncSet(d, n) : Parent(d, a) = 0
      keep == UNION {SeqToSet(DocOrder(d, Top(r))) : r \in (refs \cup {Html}) \ {0}}
  IN [n \in Nodes |-> IF n \in keep THEN d[n] ELSE FreeNode]

\* element.querySelector / querySelectorAll on the document, in document order
QueryAll(d, Match(_)) == SelectSeq(DocOrder(d, Html), Match)
QueryFirst(d, Match(_)) ==
  LET all == QueryAll(d, Match) IN IF all = <<>> THEN 0 ELSE Head(all)

\* el.closest("[data-component]")
RECURSIVE ClosestComponent(_, _)
ClosestComponent(d, n) ==
  IF n = 0 THEN 0
  ELSE IF IsElem(d, n) /\ d[n].comp # "" THEN n
  ELSE ClosestComponent(d, Parent(d, n))

-----------------------------------------------------------------------------
(* Component definitions.  A configuration is the object literal handed to   *)
(* new Component({...}); "" stands for a field that is not given.  content,   *)
(* restriction and the hooks are functions in the source: the model names     *)
(* them, and Markup, Restriction and OnInsert below say what each does.       *)

Config == [id |-> "", name |-> "", content |-> "", category |-> "",
           editorStyle |-> "", restriction |-> "", onInsert |-> "",
           onUpdate |-> "", onFocus |-> "", properties |-> <<>>,
           children |-> Undef, allowed |-> Undef]

\* a property descriptor; value is the optional preset read by insertComponent
Descriptor(name, type, default, options) ==
  [name |-> name, type |-> type, default |-> default, value |-> Undef,
   options |-> options]

\* new Component(cfg) throws when id, name or content is missing
ComponentThrows(cfg) == cfg.id = "" \/ cfg.name = "" \/ cfg.content = ""

\* the object new Component(cfg) constructs: `allowed` is always the empty
\* array and no onFocus is stored, whatever the configuration gives
Component(cfg) ==
  [id |-> cfg.id,
   name |-> cfg.name,
   icon |-> "",
   content |-> cfg.content,
   editorStyle |-> cfg.editorStyle,
   category |-> IF cfg.category = "" THEN "general" ELSE cfg.category,
   properties |-> cfg.properties,
   allowed |-> Arr(<<>>),
   children |-> IF cfg.children = Undef THEN Obj(<<>>, <<>>) ELSE cfg.children,
   restriction |-> IF cfg.restriction = "" THEN "always" ELSE cfg.restriction,
   onInsert |-> IF cfg.onInsert = "" THEN "noop" ELSE cfg.onInsert,
   onUpdate |-> IF cfg.onUpdate = "" THEN "noop" ELSE cfg.onUpdate,
   onRemove |-> "noop"]

\* component.restriction(target): the default () => true, or the catalog's
\* parent.classList.contains(<class>)
Restriction(def, d, target) ==
  def.restriction = "always" \/ def.restriction \in d[target].cls

-----------------------------------------------------------------------------
(* The registry *)

Has(reg, id) == id \in DOMAIN reg

\* getComponent(id): the definition, or null
getComponent(reg, id) == IF Has(reg, id) THEN reg[id] ELSE Null

\* what register(component) returns for an instance of Component
registerResult(reg, def) == ~Has(reg, def.id)

\* a register that replaces the entry of an id already registered
registerReplacing(reg, def) ==
  [i \in DOMAIN reg \cup {def.id} |-> IF i = def.id THEN def ELSE reg[i]]

\* the Map after register(component)
register(reg, def) ==
  IF Has(reg, def.id) THEN reg
  ELSE [i \in DOMAIN reg \cup {def.id} |-> IF i = def.id THEN def ELSE reg[i]]

-----------------------------------------------------------------------------
(* Placement *)

\* isValidDropTarget(target, component)
isValidDropTarget(reg, d, target0, component) ==
  IF component = Null THEN FALSE
  ELSE
    LET target == IF IsText(d, target0) THEN Parent(d, target0) ELSE target0
        containerName == d[target].slot
        parentEl == ClosestComponent(d, target)
        parentComponent == IF parentEl = 0 THEN Null
                           ELSE getComponent(reg, d[parentEl].comp)
        allowedComponents == IF parentComponent = Null THEN Undef
                             ELSE Get(parentComponent.allowed, containerName)
    IN IF containerName # "" /\ parentEl # 0 /\ parentComponent # Null
          /\ Truthy(allowedComponents)
       THEN CASE allowedComponents.t = "object" ->
                   \E i \in 1..Len(allowedComponents.vals) :
                      allowedComponents.vals[i] = Str(component.id)
              [] allowedComponents.t = "array" ->
                   \E i \in 1..Len(allowedComponents.items) :
                      allowedComponents.items[i] = Str(component.id)
              [] allowedComponents.t = "string" ->
                   allowedComponents.s = component.id
              [] OTHER -> FALSE
       ELSE Restriction(component, d, target)

-----------------------------------------------------------------------------
(* Conversions *)

Digits == <<"0", "1", "2", "3", "4", "5", "6", "7", "8", "9">>

\* String(v), as setAttribute and template literals apply it
JsString(v) ==
  CASE v.t = "string" -> v.s
    [] v.t = "number" -> IF v.n \in 0..9 THEN Digits[v.n + 1] ELSE "-1"
    [] v.t = "boolean" -> IF v.b THEN "true" ELSE "false"
    [] v.t = "null" -> "null"
    [] v.t = "nan" -> "NaN"
    [] OTHER -> "undefined"

\* parseFloat(s): the number a decimal digit string denotes, NaN otherwise
parseFloat(s) ==
  IF \E n \in 0..9 : Digits[n + 1] = s
  THEN Num(CHOOSE n \in 0..9 : Digits[n + 1] = s)
  ELSE NaN

\* the attribute name setAttribute stores for `data-prop-${propName}`: an HTML
\* element lower-cases attribute names
DataAttr(propName) ==
  CASE propName = "btnType" -> "data-prop-btntype"
    [] propName = "btnStyle" -> "data-prop-btnstyle"
    [] propName = "btnSize" -> "data-prop-btnsize"
    [] propName = "btnState" -> "data-prop-btnstate"
    [] propName = "addLayer" -> "data-prop-addlayer"
    [] propName = "removeLayer" -> "data-prop-removelayer"
    [] propName = "layerUp" -> "data-prop-layerup"
    [] propName = "layerDown" -> "data-prop-layerdown"
    [] propName = "activeLayer" -> "data-prop-activelayer"
    [] propName = "colSize" -> "data-prop-colsize"
    [] propName = "colSmSize" -> "data-prop-colsmsize"
    [] propName = "colMdSize" -> "data-prop-colmdsize"
    [] propName = "colLgSize" -> "data-prop-collgsize"
    [] propName = "colXlSize" -> "data-prop-colxlsize"
    [] OTHER -> "data-prop-" \o propName

NoAttrs == [a \in {} |-> ""]

SetAttr(attrs, name, value) ==
  [a \in DOMAIN attrs \cup {name} |-> IF a = name THEN value ELSE attrs[a]]

RemoveAttr(attrs, name) == [a \in DOMAIN attrs \ {name} |-> attrs[a]]

-----------------------------------------------------------------------------
(* Rendering: what each content function returns, parsed as by innerHTML.     *)
(* A markup is the element tree in document order, each entry with the index  *)
(* of its parent entry (0 for the root); <<>> is markup without any element.  *)
(* Comments and the text inside and between the tags are left out: the      *)
(* text is the same in every instance of a component.                       *)

\* the classes a `${value}` inside class="..." contributes
ClassOf(v) == IF JsString(v) = "" THEN {} ELSE {JsString(v)}

PropOr(props, name) == IF name \in DOMAIN props THEN props[name] ELSE Undef

Tag(tag, cls, slot, up) ==
  [node |-> [Element(tag, cls) EXCEPT !.slot = slot], up |-> up]

Markup(content, props) ==
  CASE content = "button" ->
         <<Tag("button", {"btn"} \cup ClassOf(PropOr(props, "btnStyle"))
                          \cup ClassOf(PropOr(props, "btnSize"))
                          \cup ClassOf(PropOr(props, "btnState")), "", 0)>>
    [] content = "button-group" ->
         <<Tag("div", {"btn-group"}, "default", 0)>>
    [] content = "dropdown" ->
         <<Tag("div", {"dropdown"}, "", 0),
           Tag("button", {"btn", "dropdown-toggle"}
                          \cup ClassOf(PropOr(props, "btnStyle"))
                          \cup ClassOf(PropOr(props, "btnSize")), "", 1),
           Tag("div", {"dropdown-menu"}, "default", 1)>>
    [] content = "dropdown-item" ->
         <<Tag("a", {"dropdown-item"}, "", 0)>>
    [] content = "row" ->
         <<Tag("div", {"row"}, "default", 0)>>
    [] content = "col" ->
         <<Tag("div", ClassOf(PropOr(props, "colSize"))
                       \cup ClassOf(PropOr(props, "colSmSize"))
                       \cup ClassOf(PropOr(props, "colMdSize"))
                       \cup ClassOf(PropOr(props, "colLgSize"))
                       \cup ClassOf(PropOr(props, "colXlSize")), "default", 0),
           Tag("p", {}, "", 1)>>
    [] content = "menu" ->
         <<Tag("div", {"dropdown-menu"}, "filter", 0)>>
    [] content = "slot-root" ->
         <<Tag("div", {}, "default", 0)>>
    [] content = "slot-inner" ->
         <<Tag("div", {}, "", 0), Tag("div", {}, "default", 1)>>
    [] content = "leaf" ->
         <<Tag("span", {}, "", 0)>>
    [] content = "layers" ->
         <<Tag("div", {"cm-layers-container"}, "", 0),
           Tag("div", {"cm-layers-content"}, "", 1)>>
    [] content = "text" ->
         <<>>
    [] OTHER -> <<>>

-----------------------------------------------------------------------------
(* Instance ids.  `comp-` + Math.random() in base 36 is a random draw: it is  *)
(* a value no element carries, or it repeats one that is in use.              *)

UsedIds(d) == {d[n].inst : n \in Nodes} \ {0}

FreshId(d) == CHOOSE i \in 1..(MaxNodes + 1) :
                 i \notin UsedIds(d) /\ \A j \in 1..(i - 1) : j \in UsedIds(d)

\* draw 0 is a new value, draw k > 0 repeats the k-th id in use (if any)
DrawId(d, r) ==
  LET used == UsedIds(d)
  IN IF r = 0 \/ r > Cardinality(used) THEN FreshId(d)
     ELSE CHOOSE x \in used : Cardinality({y \in used : y < x}) = r - 1

Draws == 0..MaxCollide

-----------------------------------------------------------------------------
(* Instantiation.  insertComponent and its helpers work on a record s: the    *)
(* document s.dom, the random draws s.rnd still to be consumed, s.threw once  *)
(* an exception is propagating, s.full once the model has run out of nodes or *)
(* draws (such a run is cut by the caller), s.ret the value returned, and     *)
(* s.log the attachments and hook calls in the order they happened.           *)

Start(d, rnd) == [dom |-> d, rnd |-> rnd, threw |-> FALSE, full |-> FALSE,
                  ret |-> 0, log |-> <<>>]

FreeSeq(d) == SelectSeq([n \in Nodes |-> n], LAMBDA n : d[n].kind = "free")

\* the elements of a markup, created on the given nodes
Build(d, tpl, nodes) ==
  LET Idx(n) == CHOOSE i \in 1..Len(tpl) : nodes[i] = n
      KidsOf(i) == LET js == SelectSeq([j \in 1..Len(tpl) |-> j],
                                       LAMBDA j : tpl[j].up = i)
                   IN [k \in 1..Len(js) |-> nodes[js[k]]]
  IN [n \in Nodes |->
        IF \E i \in 1..Len(tpl) : nodes[i] = n
        THEN [tpl[Idx(n)].node EXCEPT !.kids = KidsOf(Idx(n))]
        ELSE d[n]]

\* prop.value !== undefined ? prop.value : prop.default
PropValue(desc) == IF desc.value # Undef THEN desc.value ELSE desc.default

\* defaultProps / props of insertComponent
PropsOf(component) ==
  LET ps == component.properties
  IN [nm \in {ps[i].name : i \in 1..Len(ps)} |->
        PropValue(ps[CHOOSE i \in 1..Len(ps) : ps[i].name = nm])]

\* a stamping that also writes the properties whose value is undefined
StampUndefined(component) ==
  LET ps == component.properties
      Last(a) == CHOOSE i \in 1..Len(ps) : DataAttr(ps[i].name) = a
                    /\ \A j \in 1..Len(ps) : DataAttr(ps[j].name) = a => j <= i
  IN [a \in {DataAttr(ps[i].name) : i \in 1..Len(ps)} |->
        JsString(PropValue(ps[Last(a)]))]

\* the data-prop-* attributes insertComponent stamps: none for undefined
StampProps(component) ==
  LET ps == component.properties
      set == {i \in 1..Len(ps) : PropValue(ps[i]) # Undef}
      Last(a) == CHOOSE i \in set : DataAttr(ps[i].name) = a
                    /\ \A j \in set : DataAttr(ps[j].name) = a => j <= i
  IN [a \in {DataAttr(ps[i].name) : i \in set} |-> JsString(PropValue(ps[Last(a)]))]

\* target.querySelectorAll('br[data-mce-bogus="1"]').forEach(br => br.remove())
RECURSIVE RemoveAll(_, _)
RemoveAll(d, ns) == IF ns = <<>> THEN d ELSE RemoveAll(Detach(d, Head(ns)), Tail(ns))

RemoveBogus(d, target) ==
  RemoveAll(d, SelectSeq(Descendants(d, target), LAMBDA n : d[n].tag = "br-bogus"))

\* does the definition hold a callable onFocus (the constructor stores none)
HasOnFocus(component) ==
  component # Null /\ "onFocus" \in DOMAIN component /\ component.onFocus # ""

\* the onInsert of row-2-column: every element child of the row loses its
\* classes, gets col-md-6, and has its five data-prop attributes rewritten
RewriteCols(d, root) ==
  [n \in Nodes |->
     IF IsElem(d, n) /\ IndexOf(d[root].kids, n) # 0
     THEN [d[n] EXCEPT
             !.cls = {"col-md-6"},
             !.props = [a \in DOMAIN d[n].props
                               \cup {"data-prop-colsize", "data-prop-colsmsize",
                                     "data-prop-colmdsize", "data-prop-collgsize",
                                     "data-prop-colxlsize"} |->
                          CASE a = "data-prop-colmdsize" -> "col-md-6"
                            [] a \in {"data-prop-colsize", "data-prop-colsmsize",
                                      "data-prop-collgsize", "data-prop-colxlsize"} -> ""
                            [] OTHER -> d[n].props[a]]]
     ELSE d[n]]

\* component.onInsert(editor, rootElement, component): the default () => {}
\* and the hooks that only touch what no handler reads return; a hook may
\* throw; the hook of layers-container calls component.onFocus(editor,
\* element, component) first thing after setting tabindex, a TypeError when
\* the definition holds no onFocus
OnInsert(component, d, root) ==
  [dom |-> IF component.onInsert = "row-2-column" THEN RewriteCols(d, root) ELSE d,
   threw |-> \/ component.onInsert = "throws"
             \/ component.onInsert = "layers" /\ ~HasOnFocus(component)]

\* makeComponentDraggable(componentElement)
makeComponentDraggable(d, el) ==
  [d EXCEPT ![el].draggable = TRUE, ![el].lsn = @ \cup {"component"}]

\* Object.entries(v) of an object literal or an array
Entries(v) ==
  CASE v.t = "object" -> [i \in 1..Len(v.keys) |-> <<v.keys[i], v.vals[i]>>]
    [] v.t = "array" -> [i \in 1..Len(v.items) |-> <<JsString(Num(i - 1)), v.items[i]>>]
    [] OTHER -> <<>>

\* how often `for (let i = 0; i < count; i++)` runs
Iterations(count) ==
  CASE count.t = "number" -> IF count.n > 0 THEN count.n ELSE 0
    [] count.t = "boolean" -> IF count.b THEN 1 ELSE 0
    [] count.t = "string" -> IF parseFloat(count.s) = NaN THEN 0
                             ELSE parseFloat(count.s).n
    [] OTHER -> 0

RECURSIVE insertComponent(_, _, _, _, _)
RECURSIVE insertLoop(_, _, _, _, _)
RECURSIVE fillEntries(_, _, _, _)
RECURSIVE fillContainers(_, _, _, _)

\* this.getComponent(containerConfig.id) of insertChildComponent
ChildComponent(reg, containerConfig) ==
  IF Get(containerConfig, "id").t = "string"
  THEN getComponent(reg, Get(containerConfig, "id").s)
  ELSE Null

\* insertChildComponent(container, containerConfig) of _addChildComponents
insertChildComponent(reg, s, container, containerConfig) ==
  IF ChildComponent(reg, containerConfig) = Null THEN s
  ELSE insertLoop(reg, s, ChildComponent(reg, containerConfig), container,
                  Iterations(Get(containerConfig, "count")))

insertLoop(reg, s, childComponent, container, k) ==
  IF k = 0 \/ s.threw \/ s.full THEN s
  ELSE insertLoop(reg, insertComponent(reg, s, childComponent, container, TRUE),
                  childComponent, container, k - 1)

\* the config one [childName, childConfig] entry of an object-valued container
\* config hands to insertChildComponent; undefined when the entry is skipped
EntryConfig(childName, childConfig) ==
  IF childName = "clearExisting" THEN Undef
  ELSE IF TypeofObject(childConfig) /\ childConfig # Null
  THEN IF Truthy(Get(childConfig, "id")) /\ Truthy(Get(childConfig, "count"))
       THEN childConfig
       ELSE IF Truthy(Get(childConfig, "count"))
       THEN Obj(<<"id", "count">>, <<Str(childName), Get(childConfig, "count")>>)
       ELSE Undef
  ELSE IF childConfig.t = "string"
  THEN Obj(<<"id", "count">>, <<childConfig, Num(1)>>)
  ELSE Undef

\* Object.entries(containerConfig).forEach(([childName, childConfig]) => ...)
fillEntries(reg, s, container, entries) ==
  IF entries = <<>> \/ s.threw \/ s.full THEN s
  ELSE fillEntries(reg,
         IF EntryConfig(Head(entries)[1], Head(entries)[2]) = Undef THEN s
         ELSE insertChildComponent(reg, s, container,
                EntryConfig(Head(entries)[1], Head(entries)[2])),
         container, Tail(entries))

\* container.innerHTML = '' when the config says clearExisting
ClearExisting(s, container, containerConfig) ==
  IF Truthy(Get(containerConfig, "clearExisting"))
  THEN [s EXCEPT !.dom[container].kids = <<>>]
  ELSE s

\* what one container config inserts: itself when it has an id and a count,
\* else each entry of an object; nothing for a string, a number, undefined
ConfigEntries(containerConfig) ==
  IF ~Truthy(containerConfig) THEN <<>>
  ELSE IF Truthy(Get(containerConfig, "id")) /\ Truthy(Get(containerConfig, "count"))
  THEN <<<<"", containerConfig>>>>
  ELSE IF TypeofObject(containerConfig) THEN Entries(containerConfig)
  ELSE <<>>

\* containers.forEach(container => ...)
fillContainers(reg, s, component, containers) ==
  IF containers = <<>> \/ s.threw \/ s.full THEN s
  ELSE fillContainers(reg,
         fillEntries(reg,
           ClearExisting(s, Head(containers),
                         Get(component.children, s.dom[Head(containers)].slot)),
           Head(containers),
           ConfigEntries(Get(component.children, s.dom[Head(containers)].slot))),
         component, Tail(containers))

\* the containers _addChildComponents works on, fixed before any is filled
Containers(d, parentElement) ==
  IF d[parentElement].slot # "" THEN <<parentElement>>
  ELSE SelectSeq(Descendants(d, parentElement),
                 LAMBDA n : IsElem(d, n) /\ d[n].slot # "")

\* _addChildComponents(component, parentElement)
addChildComponents(reg, s, component, parentElement) ==
  IF ~Truthy(component.children) \/ s.threw \/ s.full THEN s
  ELSE fillContainers(reg, s, component, Containers(s.dom, parentElement))

\* the new root stamped with data-component, data-instance-id and data-prop-*
Stamped(d, component, tpl, nodes, instanceId) ==
  [Build(d, tpl, nodes) EXCEPT ![nodes[1]].comp = component.id,
                               ![nodes[1]].inst = instanceId,
                               ![nodes[1]].props = StampProps(component)]

\* the placement of the new root: appended to the target of a child insertion,
\* else put in the place of the target; a null target throws a TypeError
Placed(d, rootElement, target, isChild) ==
  IF target = 0 THEN d
  ELSE IF isChild
  THEN InsertBefore(RemoveBogus(d, target), target, rootElement, 0)
  ELSE IF d[target].slot # ""
  THEN ReplaceWith(RemoveBogus(d, target), target, rootElement)
  ELSE ReplaceWith(d, target, rootElement)

\* the end of insertComponent: onInsert, makeComponentDraggable, return
Inserted(s, component, rootElement) ==
  IF s.threw \/ s.full THEN s
  ELSE IF OnInsert(component, s.dom, rootElement).threw
  THEN [s EXCEPT !.dom = OnInsert(component, s.dom, rootElement).dom,
                 !.threw = TRUE,
                 !.log = Append(@, <<"onInsert", rootElement>>)]
  ELSE [s EXCEPT !.dom = makeComponentDraggable(
                           OnInsert(component, s.dom, rootElement).dom,
                           rootElement),
                 !.log = Append(@, <<"onInsert", rootElement>>),
                 !.ret = rootElement]

\* an insertComponent that clears the target of bogus <br> elements before it
\* looks for the root element
insertMarkupEager(reg, s, component, target, isChild, instanceId, tpl, free) ==
  IF tpl = <<>> THEN [s EXCEPT !.dom = RemoveBogus(s.dom, target), !.ret = 0]
  ELSE IF Len(free) < Len(tpl) THEN [s EXCEPT !.full = TRUE]
  ELSE Inserted(
         addChildComponents(reg,
           [s EXCEPT !.dom = Placed(Stamped(s.dom, component, tpl, free, instanceId),
                                    free[1], target, isChild),
                     !.threw = (target = 0),
                     !.log = Append(@, <<"attach", free[1]>>)],
           component, free[1]),
         component, free[1])

\* an insertComponent that calls onInsert before it fills the slots
insertMarkupHookFirst(reg, s, component, target, isChild, instanceId, tpl, free) ==
  IF tpl = <<>> THEN [s EXCEPT !.ret = 0]
  ELSE IF Len(free) < Len(tpl) THEN [s EXCEPT !.full = TRUE]
  ELSE addChildComponents(reg,
         Inserted(
           [s EXCEPT !.dom = Placed(Stamped(s.dom, component, tpl, free, instanceId),
                                    free[1], target, isChild),
                     !.threw = (target = 0),
                     !.log = Append(@, <<"attach", free[1]>>)],
           component, free[1]),
         component, free[1])

\* insertComponent from the rendered markup on
insertMarkup(reg, s, component, target, isChild, instanceId, tpl, free) ==
  IF tpl = <<>> THEN [s EXCEPT !.ret = 0]
  ELSE IF Len(free) < Len(tpl) THEN [s EXCEPT !.full = TRUE]
  ELSE Inserted(
         addChildComponents(reg,
           [s EXCEPT !.dom = Placed(Stamped(s.dom, component, tpl, free, instanceId),
                                    free[1], target, isChild),
                     !.threw = (target = 0),
                     !.log = Append(@, <<"attach", free[1]>>)],
           component, free[1]),
         component, free[1])

\* insertComponent(component, target, isChild); target is an element or 0 (null)
insertComponent(reg, s, component, target, isChild) ==
  IF s.threw \/ s.full THEN s
  ELSE IF component = Null THEN [s EXCEPT !.ret = 0]
  ELSE IF s.rnd = <<>> THEN [s EXCEPT !.full = TRUE]
  ELSE insertMarkup(reg, [s EXCEPT !.rnd = Tail(@)], component, target, isChild,
                    DrawId(s.dom, Head(s.rnd)),
                    Markup(component.content, PropsOf(component)),
                    FreeSeq(s.dom))

-----------------------------------------------------------------------------
(* The state after construction.  The constructor finds the editor content,   *)
(* registers nothing, and reinitializeExistingComponents makes every element  *)
(* of the body that carries no data-component draggable.                      *)

NativeDraggable(node) == [node EXCEPT !.draggable = TRUE, !.lsn = {"native"}]

\* <html><body><p>ab</p></body></html>
PlainDoc ==
  [n \in Nodes |->
     CASE n = Html -> [Element("html", {}) EXCEPT !.kids = <<Body>>]
       [] n = Body -> [Element("body", {}) EXCEPT !.kids = <<3>>]
       [] n = 3 -> NativeDraggable([Element("p", {}) EXCEPT !.kids = <<4>>])
       [] n = 4 -> TextNode(2)
       [] OTHER -> FreeNode]

\* <html><body><p><br data-mce-bogus="1"></p></body></html>, the content of an
\* empty editor
EmptyDoc ==
  [n \in Nodes |->
     CASE n = Html -> [Element("html", {}) EXCEPT !.kids = <<Body>>]
       [] n = Body -> [Element("body", {}) EXCEPT !.kids = <<3>>]
       [] n = 3 -> NativeDraggable([Element("p", {}) EXCEPT !.kids = <<4>>])
       [] n = 4 -> NativeDraggable(Element("br-bogus", {}))
       [] OTHER -> FreeNode]

\* no gesture: kind of drag source, the two payload entries of dataTransfer
\* ("" and 0: not set), the dragged element, the verdict of the most recent
\* dragover, whether the drop event has been delivered, and the number of
\* gestures started so far
NoDrag == [kind |-> "none", componentId |-> "", instanceId |-> 0, src |-> 0,
           over |-> "none", dropped |-> FALSE, n |-> 0]

NoRegistry == [i \in {} |-> Null]

\* this.styles = new Map(): the entries in insertion order
NoStyles == <<>>

\* the inline style of an element without a style attribute
NoInline == Obj(<<>>, <<>>)

\* the properties panel before anything is selected: initializeUI renders the
\* empty scrollable container
NoPanel == [mode |-> "none", comp |-> "", content |-> <<>>, fields |-> <<>>]

\* the editor-style injection after construction, with the editor document
\* available or not: no editor style collected, no style element, no retry
NoInjection(doc) == [doc |-> doc, set |-> <<>>, has |-> FALSE, sheet |-> <<>>,
                     retries |-> 0]

\* a layers-container as its content function renders it, before onFocus has
\* run on it: no layer element, no listener; els are the .cm-layer children
\* of .cm-layers-content in document order, layers and activeLayerIndex the
\* variables of the onFocus closure, attr the data-prop-activelayer attribute
\* (0 when absent)
NoLayers == [wired |-> FALSE, els |-> <<>>, layers |-> [k \in {} |-> 0],
             activeLayerIndex |-> -1, attr |-> 0]

\* a call of injectEditorStyles that gives up when the document is missing
injectOnce(i) ==
  IF i.doc THEN [i EXCEPT !.has = TRUE, !.sheet = i.set] ELSE i

\* injectEditorStyles(): with the document, the style element is created if
\* missing and its text becomes the collected styles joined in insertion
\* order; without it, inject is scheduled again 100 ms later
injectEditorStyles(i) ==
  IF i.doc THEN [i EXCEPT !.has = TRUE, !.sheet = i.set]
  ELSE [i EXCEPT !.retries = @ + 1]

\* the editor-style part of register(component): nothing for an id already
\* registered or a definition without editorStyle
registerStyles(i, reg, def) ==
  IF Has(reg, def.id) \/ def.editorStyle = "" THEN i
  ELSE injectEditorStyles(
         [i EXCEPT !.set = IF def.editorStyle \in SeqToSet(@) THEN @
                           ELSE Append(@, def.editorStyle)])

InitManager ==
  /\ components = NoRegistry
  /\ placeholder = 0
  /\ selectedElement = 0
  /\ drag = NoDrag
  /\ timers = <<>>
  /\ last = [op |-> "constructor"]
  /\ pdef = Undef
  /\ pel = NoAttrs
  /\ pres = [op |-> "none"]
  /\ styles = NoStyles
  /\ estyle = NoInline
  /\ sres = [op |-> "none"]
  /\ panel = NoPanel

InitCommon == InitManager /\ inj = NoInjection(TRUE) /\ lay = NoLayers

-----------------------------------------------------------------------------
(* Instantiation on its own: register and insertComponent called directly,   *)
(* over definitions whose `children` use every shape of slot fill spec.       *)

ChildConfig == [Config EXCEPT !.id = "c", !.name = "Child", !.content = "leaf"]

IdCount(id, n) == Obj(<<"id", "count">>, <<Str(id), Num(n)>>)

\* the slot fill specs tried for the slot "default"
SlotSpecs ==
  {IdCount("c", n) : n \in 0..MaxCount}
  \cup {Str("c"),
        IdCount("ghost", 1),
        Obj(<<"first">>, <<IdCount("c", 1)>>),
        Obj(<<"c">>, <<Obj(<<"count">>, <<Num(2)>>)>>),
        Obj(<<"first">>, <<Str("c")>>)}

ParentConfigs ==
  {[Config EXCEPT !.id = "p", !.name = "Parent", !.content = tpl,
                  !.children = Obj(<<"default">>, <<spec>>)] :
     tpl \in {"slot-root", "slot-inner"}, spec \in SlotSpecs}

SlotCatalog == {ChildConfig} \cup ParentConfigs

\* new Component(cfg) followed by register(component)
RegisterCall(cfg) ==
  /\ ~ComponentThrows(cfg)
  /\ components' = register(components, Component(cfg))
  /\ last' = [op |-> "register", id |-> cfg.id,
              result |-> registerResult(components, Component(cfg)),
              stored |-> getComponent(register(components, Component(cfg)), cfg.id)
                           = Component(cfg)]
  /\ inj' = registerStyles(inj, components, Component(cfg))
  /\ UNCHANGED <<dom, placeholder, selectedElement, drag, timers, pdef, pel, pres,
                 styles, estyle, sres, panel, lay>>

\* the document and the record of a call of insertComponent that returned res
InsertDone(id, target, isChild, fresh, res) ==
  /\ ~res.full
  /\ dom' = Collect(res.dom, {placeholder, selectedElement})
  /\ last' = [op |-> "insertComponent", comp |-> id, target |-> target,
              isChild |-> isChild, fresh |-> fresh, ret |-> res.ret,
              threw |-> res.threw, log |-> res.log]
  /\ UNCHANGED <<components, placeholder, selectedElement, drag, timers,
                 pdef, pel, pres, more>>

\* the live instances: the connected elements that carry data-component
Instances(d) == {n \in Nodes : IsElem(d, n) /\ d[n].comp # "" /\ InDoc(d, n)}

\* insertComponent(component, target, isChild) on an element of the body
InsertCall(id, target, isChild, rnd) ==
  Cardinality(Instances(dom)) <= MaxBefore /\
  InsertDone(id, target, isChild, \A i \in DOMAIN rnd : rnd[i] = 0,
             insertComponent(components, Start(dom, rnd), components[id],
                             target, isChild))

MaxDraws == 1 + MaxCount

InsertTargets(d) ==
  {n \in Nodes : IsElem(d, n) /\ n # Body /\ Contains(d, Body, n)}

InitInsert == InitCommon /\ dom = PlainDoc

NextInsert ==
  \/ \E cfg \in SlotCatalog : RegisterCall(cfg)
  \/ \E id \in DOMAIN components, target \in InsertTargets(dom),
        isChild \in BOOLEAN, rnd \in [1..MaxDraws -> Draws] :
        InsertCall(id, target, isChild, rnd)

SpecInsert == InitInsert /\ [][NextInsert]_vars

\* C1: once an id is registered, every later register of a definition with
\* that id returns false, and the registry keeps returning the definition
\* registered first: no entry is ever removed or replaced
C1_RegistrationPersists ==
  [][/\ \A id \in DOMAIN components :
          Has(components', id) /\ getComponent(components', id) = components[id]
     /\ (last'.op = "register" /\ Has(components, last'.id)) => ~last'.result]_vars

\* a register of a definition that differs from the one its id already holds
\* has been refused
C1_Witness ==
  /\ last.op = "register" /\ ~last.result /\ ~last.stored
  /\ Has(components, last.id)

\* the container of slot s of an instance: root.querySelector, or the root itself
SlotContainer(d, root, s) ==
  IF d[root].slot = s THEN root
  ELSE LET found == SelectSeq(Descendants(d, root),
                              LAMBDA n : IsElem(d, n) /\ d[n].slot = s)
       IN IF found = <<>> THEN 0 ELSE Head(found)

\* the child instances of component c directly inside a container
ChildInstances(d, container, c) ==
  IF container = 0 THEN <<>>
  ELSE SelectSeq(d[container].kids, LAMBDA n : IsElem(d, n) /\ d[n].comp = c)

\* a call insertComponent(p, ...) has just returned the new root last'.ret, and
\* p's definition maps the slot "default" to the given fill spec while the
\* component "c" is registered
FilledWith(spec) ==
  /\ last'.op = "insertComponent" /\ last'.comp = "p" /\ last'.ret # 0
  /\ Has(components, "c")
  /\ Get(components["p"].children, "default") = spec

\* C4: a definition whose children maps the slot to {id: c, count: n}, with c
\* registered and n >= 0, is instantiated with exactly n child instances of c
\* in the slot's container, each with an instance id of its own (the ids are
\* compared only in runs where no random id repeats an id in use)
C4_SlotFillCount ==
  [][\A n \in 0..MaxCount :
       FilledWith(IdCount("c", n)) =>
         LET kids == ChildInstances(dom', SlotContainer(dom', last'.ret, "default"), "c")
         IN /\ Len(kids) = n
            /\ \A i \in 1..Len(kids) : dom'[kids[i]].inst # 0
            /\ last'.fresh =>
                 \A i, j \in 1..Len(kids) :
                    i # j => dom'[kids[i]].inst # dom'[kids[j]].inst]_vars

\* C5: a definition whose children maps the slot directly to the bare id c of
\* a registered component is instantiated with exactly one child instance of c
\* in the slot's container
C5_BareIdOneChild ==
  [][FilledWith(Str("c")) =>
       Len(ChildInstances(dom', SlotContainer(dom', last'.ret, "default"), "c")) = 1]_vars

-----------------------------------------------------------------------------
(* The catalog of bs5_components_init: the button, the dropdown with its      *)
(* `allowed` rule for the slot "default", and the dropdown item that may only *)
(* go inside a dropdown menu.                                                 *)

\* the option values of the button's btnStyle
BtnStyles ==
  <<"btn-primary", "btn-secondary", "btn-success", "btn-danger", "btn-warning",
    "btn-info", "btn-light", "btn-dark", "btn-link", "btn-outline-primary",
    "btn-outline-secondary", "btn-outline-success", "btn-outline-danger",
    "btn-outline-warning", "btn-outline-info", "btn-outline-light",
    "btn-outline-dark">>

ButtonConfig ==
  [Config EXCEPT !.id = "button", !.name = "Button", !.category = "Basic",
                 !.content = "button", !.onUpdate = "button",
                 !.properties =
                   <<Descriptor("btnType", "select", Str("button"),
                                <<Str("button"), Str("submit"), Str("reset")>>),
                     Descriptor("btnStyle", "select", Str("btn-primary"),
                                [i \in 1..Len(BtnStyles) |-> Str(BtnStyles[i])]),
                     Descriptor("btnSize", "select", Str(""),
                                <<Str(""), Str("btn-lg"), Str("btn-sm")>>),
                     Descriptor("btnState", "select", Str(""),
                                <<Str(""), Str("active"), Str("disabled")>>)>>]

DropdownConfig ==
  [Config EXCEPT !.id = "dropdown", !.name = "Dropdown", !.category = "Basic",
                 !.content = "dropdown", !.onUpdate = "dropdown",
                 !.allowed = Obj(<<"default">>, <<Str("dropdown-item")>>),
                 !.properties =
                   <<Descriptor("btnStyle", "select", Str("btn-primary"), <<>>),
                     Descriptor("btnSize", "select", Str(""), <<>>)>>]

DropdownItemConfig ==
  [Config EXCEPT !.id = "dropdown-item", !.name = "Dropdown Item",
                 !.category = "Basic", !.content = "dropdown-item",
                 !.restriction = "dropdown-menu"]

Catalog == <<ButtonConfig, DropdownConfig, DropdownItemConfig>>

RECURSIVE registerAll(_, _)
\* components.forEach((component) => componentsManager.register(component))
registerAll(reg, cfgs) ==
  IF cfgs = <<>> THEN reg
  ELSE registerAll(register(reg, Component(Head(cfgs))), Tail(cfgs))

-----------------------------------------------------------------------------
(* The drop indicator *)

\* a removal that forgets the indicator and leaves it in the document
removePlaceholderKeeping(d, ph) == d

\* removePlaceholder(): the document after this.placeholder.remove()
removePlaceholder(d, ph) == IF ph = 0 THEN d ELSE Detach(d, ph)

DropIndicator == Element("span", {"drop-indicator"})

\* container.insertAdjacentElement('beforebegin' / 'afterend', ph)
InsertAdjacent(d, ref, ph, after) ==
  IF Parent(d, ref) = 0 THEN d
  ELSE InsertBefore(d, Parent(d, ref), ph,
                    IF after THEN NextSibling(d, ref) ELSE ref)

\* createPlaceholder(doc, range, position) once a stale indicator is removed:
\* ph and rest are the nodes createElement and splitText would take
createPlaceholder(d, container, offset, position, ph, rest) ==
  LET d1 == [d EXCEPT ![ph] = DropIndicator]
  IN IF position = "before"
     THEN InsertAdjacent(d1, IF IsText(d, container) THEN Parent(d, container)
                             ELSE container, ph, FALSE)
     ELSE IF IsText(d, container)
     THEN IF offset < d[container].len
          THEN InsertBefore(
                 InsertBefore([d1 EXCEPT ![container].len = offset,
                                         ![rest] = TextNode(d[container].len - offset)],
                              Parent(d, container), rest, NextSibling(d, container)),
                 Parent(d, container), ph, rest)
          ELSE InsertAdjacent(d1, Parent(d, container), ph, TRUE)
     ELSE IF offset < Len(d[container].kids)
     THEN InsertBefore(d1, container, ph, d[container].kids[offset + 1])
     ELSE InsertBefore(d1, container, ph, 0)

-----------------------------------------------------------------------------
(* Selection *)

\* a.isEqualNode(b): the same kind of node, attributes and children
RECURSIVE IsEqualNode(_, _, _)
IsEqualNode(d, a, b) ==
  /\ [d[a] EXCEPT !.kids = <<>>, !.lsn = {}] = [d[b] EXCEPT !.kids = <<>>, !.lsn = {}]
  /\ Len(d[a].kids) = Len(d[b].kids)
  /\ \A i \in 1..Len(d[a].kids) : IsEqualNode(d, d[a].kids[i], d[b].kids[i])

\* selectElement(element) throws inside its try block: it reads isEqualNode of
\* a null selection, or onFocus of a definition getComponent did not find
selectThrows(reg, d, sel, element) ==
  /\ sel # element
  /\ d[element].comp # ""
  /\ \/ sel = 0
     \/ ~IsEqualNode(d, sel, element) /\ getComponent(reg, d[element].comp) = Null

\* this.selectedElement after selectElement(element), element an element node
selectElement(reg, d, sel, element) ==
  IF sel = element \/ selectThrows(reg, d, sel, element) THEN sel ELSE element

\* selectElement(element) calls componentDef.onFocus(editor, element,
\* componentDef)
selectFocuses(reg, d, sel, element) ==
  /\ sel # element /\ ~selectThrows(reg, d, sel, element)
  /\ d[element].comp # "" /\ ~IsEqualNode(d, sel, element)
  /\ HasOnFocus(getComponent(reg, d[element].comp))

-----------------------------------------------------------------------------
(* Filtered output *)

\* the selector list getFilteredHtml hands to querySelectorAll, each attribute
\* selector as the tokens of its attribute name
FilterSelector == <<<<"data-component">>, <<"data-instance-id">>,
                    <<"data-prop-", "*">>, <<"draggable">>>>

\* querySelectorAll throws a SyntaxError when a selector of the list does not
\* parse: `*` is no part of an attribute name
SelectorThrows(sel) ==
  \E i \in 1..Len(sel) : \E j \in 1..Len(sel[i]) : sel[i][j] = "*"

\* the attributes of the manager an element of the returned markup carries
ManagerAttrs(node) ==
  (IF node.comp # "" THEN {"data-component"} ELSE {})
  \cup (IF node.inst # 0 THEN {"data-instance-id"} ELSE {})
  \cup DOMAIN node.props
  \cup (IF node.draggable THEN {"draggable"} ELSE {})
  \cup (IF node.slot # "" THEN {"data-component-children"} ELSE {})

\* what elements.forEach removes from an element the selector matched
Filtered(node) ==
  IF node.comp # "" \/ node.inst # 0 \/ node.draggable
  THEN [node EXCEPT !.comp = "", !.inst = 0, !.draggable = FALSE, !.props = NoAttrs]
  ELSE node

\* getFilteredHtml(): threw, or the manager attributes left in the markup
getFilteredHtml(d) ==
  IF SelectorThrows(FilterSelector) THEN [threw |-> TRUE, attrs |-> {}]
  ELSE [threw |-> FALSE,
        attrs |-> UNION {ManagerAttrs(Filtered(d[n])) :
                           n \in SeqToSet(Descendants(d, Body))}]

-----------------------------------------------------------------------------
(* The properties panel.  The panel is what updatePropertiesPanel rendered    *)
(* last: the mode, the definition the fields are bound to, the groups of the  *)
(* content container in their order, and the names of the property fields.    *)
(* The layout group of a flex or grid element is left out.                    *)

\* _createStylesDropdown(container): nothing without a registered style, else
\* the group with the style selector is put in front of the container
createStylesDropdown(sty, content) ==
  IF sty = <<>> THEN content ELSE <<"style-selector">> \o content

\* the types createPropertyField renders a field for
FieldTypes == {"select", "text", "number", "color", "checkbox", "textarea",
               "button", "hidden"}

\* the property fields renderComponentProperties creates for a definition
PanelFields(component) ==
  LET shown == SelectSeq(component.properties, LAMBDA q : q.type \in FieldTypes)
  IN [i \in 1..Len(shown) |-> shown[i].name]

\* renderComponentProperties(component, container, currentProps): the
\* container is emptied first, then the element group and the property group
\* (or the notice that there is none) are appended
renderComponentProperties(component, content) ==
  <<"element">> \o (IF PanelFields(component) # <<>> THEN <<"General">>
                    ELSE <<"no-properties">>)

\* renderElementProperties(element, container): the groups are appended
renderElementProperties(content) ==
  content \o <<"element", "typography", "colors", "borders", "spacing", "size">>

\* updatePropertiesPanel(): the second method of that name in the class, the
\* one in effect
updatePropertiesPanel(reg, sty, d, sel, pnl) ==
  IF sel = 0 THEN pnl
  ELSE IF getComponent(reg, d[sel].comp) # Null
  THEN [mode |-> "component", comp |-> d[sel].comp,
        content |-> renderComponentProperties(getComponent(reg, d[sel].comp),
                                              createStylesDropdown(sty, <<>>)),
        fields |-> PanelFields(getComponent(reg, d[sel].comp))]
  ELSE [mode |-> "generic", comp |-> "",
        content |-> renderElementProperties(createStylesDropdown(sty, <<>>)),
        fields |-> <<>>]

-----------------------------------------------------------------------------
(* The editing session: the catalog is registered, components are dragged    *)
(* from the sidebar, elements and instances are dragged inside the editor,   *)
(* elements are clicked, and the host asks for the filtered markup.          *)

BodyElems(d) == {n \in SeqToSet(DocOrder(d, Body)) : IsElem(d, n)}

\* the elements elementFromPoint can return: the indicator has
\* pointer-events: none
PointerElems(d, ph) == BodyElems(d) \ {ph}

\* the record a handler leaves in `last`: its name and whether it threw
Done(op, threw) == [op |-> op, threw |-> threw]

\* the record of the handlers that return nothing and throw nothing
Quiet == Done("event", FALSE)

Init ==
  /\ InitCommon
  /\ dom = PlainDoc

\* bs5_components_init(componentsManager)
bs5_components_init ==
  /\ components' = registerAll(components, Catalog)
  /\ last' = Quiet
  /\ UNCHANGED <<dom, placeholder, selectedElement, drag, timers, pdef, pel, pres, more>>

\* dragstart on a component item of the sidebar
DragStartCatalog(id) ==
  /\ drag.kind = "none" /\ drag.n < MaxGestures
  /\ drag' = [NoDrag EXCEPT !.kind = "catalog", !.componentId = id, !.n = drag.n + 1]
  /\ last' = Quiet
  /\ UNCHANGED <<components, dom, placeholder, selectedElement, timers,
                 pdef, pel, pres, more>>

\* dragstart on a draggable element of the editor: the listener of
\* makeComponentDraggable sets the payload, the listener of the NodeChange
\* wiring marks the element as dragging
DragStartElement(el) ==
  /\ drag.kind = "none" /\ drag.n < MaxGestures
  /\ dom[el].draggable
  /\ drag' = [NoDrag EXCEPT
                !.kind = "element", !.src = el, !.n = drag.n + 1,
                !.componentId = IF "component" \in dom[el].lsn THEN dom[el].comp ELSE "",
                !.instanceId = IF "component" \in dom[el].lsn THEN dom[el].inst ELSE 0]
  /\ dom' = IF "native" \in dom[el].lsn
            THEN [dom EXCEPT ![el].cls = @ \cup {"dragging"}]
            ELSE dom
  /\ last' = Quiet
  /\ UNCHANGED <<components, placeholder, selectedElement, timers, pdef, pel, pres, more>>

\* the drag payload names a component that may not be dropped on the element
Rejected(element) ==
  /\ drag.componentId # ""
  /\ ~isValidDropTarget(components, dom, element,
                        getComponent(components, drag.componentId))

\* dragover on a rejected element: the handler returns at once
DragOverRejected(element) ==
  /\ drag.kind # "none" /\ ~drag.dropped
  /\ Rejected(element)
  /\ drag' = [drag EXCEPT !.over = "invalid"]
  /\ last' = Quiet
  /\ UNCHANGED <<components, dom, placeholder, selectedElement, timers,
                 pdef, pel, pres, more>>

\* dragover on an accepted element: the indicator is removed and created anew
\* at the caret position (container, offset) the host reports for the pointer
DragOverAccepted(element, container, offset, position) ==
  /\ drag.kind # "none" /\ ~drag.dropped
  /\ ~Rejected(element)
  /\ LET removed == Collect(removePlaceholder(dom, placeholder),
                            {selectedElement, drag.src})
         free == FreeSeq(removed)
     IN /\ Len(free) >= 2
        /\ dom' = createPlaceholder(removed, container, offset, position,
                                    free[1], free[2])
        /\ placeholder' = free[1]
  /\ drag' = [drag EXCEPT !.over = "valid"]
  /\ last' = Quiet
  /\ UNCHANGED <<components, selectedElement, timers, pdef, pel, pres, more>>

\* the caret positions the host may report for a pointer over the element: a
\* child index of the element, or an offset inside one of its text children
CaretPositions(d, element) ==
  {<<element, k>> : k \in 0..Len(d[element].kids)}
  \cup UNION {{<<c, o>> : o \in 1..d[c].len} :
                c \in {x \in SeqToSet(d[element].kids) : IsText(d, x)}}

\* the NodeChange handler on e.element
NodeChange(d, element) ==
  [n \in Nodes |->
     IF n # element /\ IsElem(d, n) /\ Contains(d, element, n) /\ ~d[n].draggable
     THEN NativeDraggable(d[n])
     ELSE d[n]]

\* the drop event is delivered once per gesture
Dropping ==
  /\ drag.kind # "none" /\ ~drag.dropped
  /\ drag' = [drag EXCEPT !.dropped = TRUE]

\* drop, instance branch: the payload carries an instance id (the element
\* that carries it is in the document for the whole gesture)
DropInstance ==
  /\ Dropping
  /\ drag.instanceId # 0
  /\ LET componentElement == QueryFirst(dom, LAMBDA n : dom[n].inst = drag.instanceId)
         threw == placeholder # 0 /\ componentElement # 0
                  /\ ReplaceThrows(dom, placeholder, componentElement)
     IN /\ componentElement # 0
        /\ dom' = IF placeholder = 0 \/ threw THEN dom
                  ELSE Collect(ReplaceWith(dom, placeholder, componentElement),
                               {placeholder, selectedElement, drag.src})
        /\ last' = Done("drop", threw)
  /\ UNCHANGED <<components, placeholder, selectedElement, timers, pdef, pel, pres, more>>

\* the document after the component branch of drop: insertComponent at the
\* indicator, then editor.nodeChanged(), which reports the body as e.element
\* (the gesture started in the sidebar and the editor holds no caret)
DropInsert(res) ==
  /\ ~res.full
  /\ dom' = Collect(NodeChange(res.dom, Body),
                    {placeholder, selectedElement, drag.src})
  /\ last' = Done("drop", res.threw)

\* drop, component branch: the payload carries a component id only
DropComponent(rnd) ==
  /\ Dropping
  /\ drag.instanceId = 0 /\ drag.componentId # ""
  /\ IF placeholder = 0 \/ getComponent(components, drag.componentId) = Null
     THEN dom' = dom /\ last' = Done("drop", FALSE)
     ELSE DropInsert(insertComponent(components, Start(dom, rnd),
                                     getComponent(components, drag.componentId),
                                     placeholder, FALSE))
  /\ UNCHANGED <<components, placeholder, selectedElement, timers, pdef, pel, pres, more>>

\* the first element of the document with the class `dragging`, 0 when none
FirstDragging(d) == QueryFirst(d, LAMBDA n : IsElem(d, n) /\ "dragging" \in d[n].cls)

\* the document after `finally`: removePlaceholder(), then the first
\* .dragging element of the document is removed
DropFinally(d, ph) ==
  IF FirstDragging(removePlaceholder(d, ph)) = 0 THEN removePlaceholder(d, ph)
  ELSE Detach(removePlaceholder(d, ph), FirstDragging(removePlaceholder(d, ph)))

\* drop, native branch: no payload of the manager
DropNative ==
  /\ Dropping
  /\ drag.instanceId = 0 /\ drag.componentId = ""
  /\ dom' = Collect(
              DropFinally(
                IF placeholder # 0 /\ selectedElement # 0
                   /\ ~Contains(dom, selectedElement, placeholder)
                   /\ ~ReplaceThrows(dom, placeholder, selectedElement)
                THEN ReplaceWith(dom, placeholder, selectedElement)
                ELSE dom,
                placeholder),
              {selectedElement, drag.src})
  /\ placeholder' = 0
  /\ last' = Done("drop", FALSE)
  /\ UNCHANGED <<components, selectedElement, timers, pdef, pel, pres, more>>

\* dragend: the handler of the document for a sidebar item, the handler of
\* the editor for an element that is still in the editor's document; each
\* starts its timer
DragEnd ==
  /\ drag.kind # "none"
  /\ LET timer == IF drag.kind = "catalog" THEN <<"document">>
                  ELSE IF InDoc(dom, drag.src) THEN <<"editor">>
                  ELSE <<>>
     IN /\ Len(timers) + Len(timer) <= MaxTimers
        /\ timers' = timers \o timer
  /\ drag' = [NoDrag EXCEPT !.n = drag.n]
  /\ dom' = Collect(dom, {placeholder, selectedElement})
  /\ last' = Quiet
  /\ UNCHANGED <<components, placeholder, selectedElement, pdef, pel, pres, more>>

\* the callback of a dragend timer, 500 ms later
TimerFire ==
  /\ timers # <<>>
  /\ timers' = Tail(timers)
  /\ dom' = Collect(
              removePlaceholder(
                IF Head(timers) = "editor" /\ selectedElement # 0
                THEN [dom EXCEPT ![selectedElement].cls = @ \ {"dragging"}]
                ELSE dom,
                placeholder),
              {selectedElement, drag.src})
  /\ placeholder' = 0
  /\ last' = Quiet
  /\ UNCHANGED <<components, selectedElement, drag, pdef, pel, pres, more>>

\* click on an element of the editor: selectElement(e.target)
Click(element) ==
  /\ drag.kind = "none"
  /\ selectedElement' = selectElement(components, dom, selectedElement, element)
  /\ dom' = Collect(dom, {placeholder, selectedElement', drag.src})
  /\ panel' = IF selectedElement' = selectedElement THEN panel
               ELSE updatePropertiesPanel(components, styles, dom,
                                          selectedElement', panel)
  /\ last' = Done("selectElement",
                   selectThrows(components, dom, selectedElement, element))
  /\ UNCHANGED <<components, placeholder, drag, timers, pdef, pel, pres,
                 styles, estyle, sres, inj, lay>>

\* getFilteredHtml() called by the host
GetFilteredHtml ==
  /\ drag.kind = "none"
  /\ last' = [op |-> "getFilteredHtml", threw |-> getFilteredHtml(dom).threw,
              attrs |-> getFilteredHtml(dom).attrs]
  /\ UNCHANGED <<components, dom, placeholder, selectedElement, drag, timers,
                 pdef, pel, pres, more>>

Next ==
  \/ bs5_components_init
  \/ \E id \in DOMAIN components : DragStartCatalog(id)
  \/ \E el \in BodyElems(dom) : DragStartElement(el)
  \/ \E element \in PointerElems(dom, placeholder) : DragOverRejected(element)
  \/ \E element \in PointerElems(dom, placeholder) :
       \E caret \in CaretPositions(dom, element), position \in {"before", "center"} :
          DragOverAccepted(element, caret[1], caret[2], position)
  \/ DropInstance
  \/ \E rnd \in [1..1 -> Draws] : DropComponent(rnd)
  \/ DropNative
  \/ DragEnd
  \/ TimerFire
  \/ \E element \in PointerElems(dom, placeholder) : Click(element)
  \/ GetFilteredHtml

Spec == Init /\ [][Next]_vars

\* the `allowed` rule a configuration gives for a slot includes a component id
RuleIncludes(rule, id) ==
  CASE rule.t = "string" -> rule.s = id
    [] rule.t = "array" -> \E i \in 1..Len(rule.items) : rule.items[i] = Str(id)
    [] rule.t = "object" -> \E i \in 1..Len(rule.vals) : rule.vals[i] = Str(id)
    [] OTHER -> FALSE

\* C2: for a definition P constructed with an `allowed` rule for a slot, and
\* every slot container T of that slot in a live instance of P,
\* isValidDropTarget(T, C) is true exactly when the rule includes C's id,
\* whatever C.restriction(T) returns
C2_AllowedRuleDecides ==
  \A i \in 1..Len(Catalog), T \in BodyElems(dom), C \in DOMAIN components :
     (/\ Has(components, Catalog[i].id)
      /\ dom[T].slot # ""
      /\ ClosestComponent(dom, T) # 0
      /\ dom[ClosestComponent(dom, T)].comp = Catalog[i].id
      /\ Truthy(Get(Catalog[i].allowed, dom[T].slot)))
     => (isValidDropTarget(components, dom, T, components[C])
           <=> RuleIncludes(Get(Catalog[i].allowed, dom[T].slot), C))

\* the attribute names that contain data-component, data-instance-id or
\* data-prop- as a substring
MarkerAttrs ==
  {"data-component", "data-instance-id", "data-component-children"}
  \cup UNION {{DataAttr(Catalog[i].properties[j].name) :
                  j \in 1..Len(Catalog[i].properties)} : i \in 1..Len(Catalog)}

\* C6: with a component instantiated, getFilteredHtml returns normally and
\* the markup it returns contains no data-component, data-instance-id or
\* data-prop- substring
C6_FilteredOutputClean ==
  (last.op = "getFilteredHtml" /\ Instances(dom) # {})
    => ~last.threw /\ last.attrs \cap MarkerAttrs = {}

\* the drop indicator is in the document
IndicatorShown == placeholder # 0 /\ InDoc(dom, placeholder)

\* where each live instance is: its node, its parent and its place there
InstancePlaces(d) ==
  {<<n, Parent(d, n), IndexOf(d[Parent(d, n)].kids, n)>> : n \in Instances(d)}

\* C7: while the most recent dragover of a drag that carries a component id
\* was over a rejected target (and no timer of an earlier gesture is
\* pending), no drop indicator is in the document, and a drop at that point
\* creates no instance and moves none
C7_RejectedTargetNoIndicator ==
  [][(/\ drag.kind # "none" /\ ~drag.dropped /\ drag.componentId # ""
      /\ drag.over = "invalid" /\ timers = <<>>)
     => /\ ~IndicatorShown
        /\ last'.op = "drop" => InstancePlaces(dom') = InstancePlaces(dom)]_vars

\* C8: selectElement(el), for an element el other than the current selection
\* (null included), ends with el selected, whether or not el carries
\* data-component and whether or not its component id is registered
C8_SelectionUpdated ==
  [][\A el \in Nodes :
       (el \in PointerElems(dom, placeholder) /\ el # selectedElement /\ Click(el))
         => selectedElement' = el]_vars

\* the elements in the document other than the two given nodes keep their
\* parent and their place among its children
OthersStay(d, e, a, b) ==
  \A n \in Nodes :
     (IsElem(d, n) /\ InDoc(d, n) /\ n \notin {a, b})
       => InDoc(e, n) /\ Parent(e, n) = Parent(d, n)

\* C9: a drop without component id and instance id, with the indicator in
\* the document, puts the dragged element in the indicator's place: after it
\* the dragged element is in the document in the indicator's parent, the
\* indicator is gone, and no other element has moved or left the document
C9_NativeDropKeepsElement ==
  [][(/\ last'.op = "drop" /\ drag.kind = "element"
      /\ drag.componentId = "" /\ drag.instanceId = 0
      /\ IndicatorShown)
     => /\ InDoc(dom', drag.src)
        /\ Parent(dom', drag.src) = Parent(dom, placeholder)
        /\ ~InDoc(dom', placeholder)
        /\ OthersStay(dom, dom', drag.src, placeholder)]_vars

\* the live instances and their data-instance-id values
InstanceIds(d) == {<<n, d[n].inst>> : n \in Instances(d)}

\* C10: a drop whose payload carries an instance id, with the indicator
\* anywhere in the document, moves the dragged instance to the indicator's
\* place and removes the indicator, keeps the set of live instances and their
\* instance ids, and lets no exception escape
C10_InstanceDropRelocates ==
  [][(last'.op = "drop" /\ drag.instanceId # 0 /\ IndicatorShown)
     => /\ ~last'.threw
        /\ InDoc(dom', drag.src)
        /\ Parent(dom', drag.src) = Parent(dom, placeholder)
        /\ ~InDoc(dom', placeholder)
        /\ InstanceIds(dom') = InstanceIds(dom)]_vars

\* the elements of the document that carry the class `dragging`
DraggingMarked(d) ==
  {n \in Nodes : IsElem(d, n) /\ InDoc(d, n) /\ "dragging" \in d[n].cls}

\* C11: once a drag gesture has ended (with or without a drop, whatever its
\* source) and every dragend timer has fired, the document holds no drop
\* indicator and no element with the class `dragging`, whichever element is
\* selected
C11_GestureEndCleanup ==
  (drag.kind = "none" /\ drag.n > 0 /\ timers = <<>>)
    => ~IndicatorShown /\ DraggingMarked(dom) = {}

\* the live instances a drop step has created, and the one it has moved
DroppedInstances(d, e, instanceId) ==
  (Instances(e) \ Instances(d))
    \cup {n \in Instances(e) : instanceId # 0 /\ e[n].inst = instanceId
                               /\ Parent(e, n) # Parent(d, n)}

\* C21: every instance a drop has created or relocated lies in a parent
\* element that isValidDropTarget accepts for its definition
C21_ContainmentAfterDrops ==
  [][last'.op = "drop" =>
       \A n \in DroppedInstances(dom, dom', drag.instanceId) :
          isValidDropTarget(components, dom', Parent(dom', n),
                            getComponent(components, dom'[n].comp))]_vars

-----------------------------------------------------------------------------
(* Property binding on its own: one element, one descriptor, and the writes   *)
(* and reads of the properties panel.                                         *)

\* a || b
Or(a, b) == IF Truthy(a) THEN a ELSE b

\* typeof v === "number"
TypeofNumber(v) == v.t \in {"number", "nan"}

\* the value _getPropertiesFromElement gives one property
ReadProperty(attrs, propName, propDef) ==
  IF DataAttr(propName) \in DOMAIN attrs
  THEN IF TypeofNumber(propDef.default)
       THEN Or(parseFloat(attrs[DataAttr(propName)]), propDef.default)
       ELSE IF propDef.default.t = "boolean"
       THEN Bool(attrs[DataAttr(propName)] = "true")
       ELSE Or(Or(Str(attrs[DataAttr(propName)]), propDef.default), Str(""))
  ELSE propDef.default

\* _getPropertiesFromElement(element, propertyDefs): attrs are the element's
\* data-prop-* attributes, propertyDefs the descriptors in key order
getPropertiesFromElement(attrs, propertyDefs) ==
  [nm \in {propertyDefs[i].name : i \in 1..Len(propertyDefs)} |->
     ReadProperty(attrs, nm,
                  propertyDefs[CHOOSE i \in 1..Len(propertyDefs) :
                                  propertyDefs[i].name = nm])]

\* _savePropertyToElement(element, propName, value)
savePropertyToElement(attrs, propName, value) ==
  IF value = Null \/ value = Undef
  THEN RemoveAttr(attrs, DataAttr(propName))
  ELSE SetAttr(attrs, DataAttr(propName), JsString(value))

\* the descriptors tried: each type, with and without a default that is falsy
PropDescriptors ==
  {Descriptor(nm, "text", d, <<>>) : nm \in {"title", "btnStyle"},
                                     d \in {Str(""), Str("a"), Undef}}
  \cup {Descriptor("size", "number", Num(n), <<>>) : n \in {0, 5}}
  \cup {Descriptor("open", "checkbox", Bool(b), <<>>) : b \in BOOLEAN}
  \cup {Descriptor("btnSize", "select", d, <<Str(""), Str("a"), Str("b")>>) :
          d \in {Str(""), Str("a")}}

\* the values that are valid for a descriptor's type
ValidValues(desc) ==
  CASE desc.type = "text" -> {Str(""), Str("a"), Str("b")}
    [] desc.type = "select" -> SeqToSet(desc.options)
    [] desc.type = "number" -> {Num(n) : n \in 0..9}
    [] desc.type = "checkbox" -> {Bool(TRUE), Bool(FALSE)}
    [] OTHER -> {}

\* the panel writes a value of the property to the element
SaveProperty(value) ==
  /\ pel' = savePropertyToElement(pel, pdef.name, value)
  /\ pres' = [op |-> "save", value |-> value]
  /\ UNCHANGED <<components, dom, placeholder, selectedElement, drag, timers,
                 last, pdef, more>>

\* the panel reads the properties back right after a write
ReadProperties ==
  /\ pres.op = "save"
  /\ pres' = [op |-> "read", value |-> pres.value,
              props |-> getPropertiesFromElement(pel, <<pdef>>)]
  /\ UNCHANGED <<components, dom, placeholder, selectedElement, drag, timers,
                 last, pdef, pel, more>>

InitProps ==
  /\ components = NoRegistry
  /\ dom = PlainDoc
  /\ placeholder = 0
  /\ selectedElement = 0
  /\ drag = NoDrag
  /\ timers = <<>>
  /\ last = [op |-> "constructor"]
  /\ pdef \in PropDescriptors
  /\ pel = NoAttrs
  /\ pres = [op |-> "none"]
  /\ styles = NoStyles
  /\ estyle = NoInline
  /\ sres = [op |-> "none"]
  /\ panel = NoPanel
  /\ inj = NoInjection(TRUE)
  /\ lay = NoLayers

NextProps ==
  \/ \E value \in ValidValues(pdef) \cup {Null} : SaveProperty(value)
  \/ ReadProperties

SpecProps == InitProps /\ [][NextProps]_vars

\* C3: a write of a value valid for the descriptor's type followed by a read
\* yields that value for the property (the empty string, 0 and false
\* included), and a write of null followed by a read yields the default
C3_WriteReadIdempotent ==
  pres.op = "read" =>
    pres.props[pdef.name] = (IF pres.value = Null THEN pdef.default ELSE pres.value)

-----------------------------------------------------------------------------
(* Hooks and failures: definitions whose content yields no element, whose     *)
(* onInsert throws, that are constructed with an onFocus, and that declare    *)
(* properties of every type of default, are constructed, registered,          *)
(* instantiated and selected.                                                 *)

\* content: () => 'no element here'
NoteConfig == [Config EXCEPT !.id = "note", !.name = "Note", !.content = "text"]

\* onInsert: () => { throw new Error(...) }
FragileConfig ==
  [Config EXCEPT !.id = "fragile", !.name = "Fragile", !.content = "leaf",
                 !.onInsert = "throws"]

\* the layers-container of cm_essentials_init
LayersConfig ==
  [Config EXCEPT !.id = "layers-container", !.name = "Layers",
                 !.category = "Layout", !.editorStyle = "cm-layers",
                 !.content = "layers", !.onUpdate = "layers",
                 !.onInsert = "layers", !.onFocus = "layers",
                 !.properties =
                   <<Descriptor("addLayer", "button", Undef, <<>>),
                     Descriptor("removeLayer", "button", Undef, <<>>),
                     Descriptor("layerUp", "button", Undef, <<>>),
                     Descriptor("layerDown", "button", Undef, <<>>),
                     Descriptor("activeLayer", "select", Str(""), <<>>)>>]

\* a definition with a descriptor for each kind of default
TypedConfig ==
  [Config EXCEPT !.id = "typed", !.name = "Typed", !.content = "leaf",
                 !.properties =
                   <<Descriptor("title", "text", Undef, <<>>),
                     Descriptor("label", "text", Str(""), <<>>),
                     Descriptor("kind", "text", Str("a"), <<>>),
                     Descriptor("size", "number", Num(0), <<>>),
                     Descriptor("width", "number", Num(5), <<>>),
                     Descriptor("open", "checkbox", Bool(FALSE), <<>>),
                     Descriptor("wide", "checkbox", Bool(TRUE), <<>>)>>]

HookConfigs == {NoteConfig, FragileConfig, LayersConfig, TypedConfig}

\* the configurations that lack a required field
PartialConfigs ==
  {[FragileConfig EXCEPT !.id = ""], [FragileConfig EXCEPT !.name = ""],
   [FragileConfig EXCEPT !.content = ""]}

\* register(new Component(cfg)) when wrap, register(cfg) with the plain
\* object otherwise: the constructor may throw before register is reached,
\* and register refuses what is no instance of Component
RegisterAttempt(cfg, wrap) ==
  /\ components' = IF wrap /\ ~ComponentThrows(cfg)
                   THEN register(components, Component(cfg))
                   ELSE components
  /\ last' = [op |-> "register", id |-> cfg.id,
              result |-> /\ wrap /\ ~ComponentThrows(cfg)
                         /\ registerResult(components, Component(cfg)),
              threw |-> wrap /\ ComponentThrows(cfg)]
  /\ inj' = IF wrap /\ ~ComponentThrows(cfg)
            THEN registerStyles(inj, components, Component(cfg))
            ELSE inj
  /\ UNCHANGED <<dom, placeholder, selectedElement, drag, timers, pdef, pel,
                 pres, styles, estyle, sres, panel, lay>>

NextHooks ==
  \/ \E cfg \in HookConfigs \cup PartialConfigs, wrap \in BOOLEAN :
        RegisterAttempt(cfg, wrap)
  \/ \E id \in DOMAIN components, target \in InsertTargets(dom),
        isChild \in BOOLEAN, rnd \in [1..1 -> Draws] :
        InsertCall(id, target, isChild, rnd)
  \/ \E element \in PointerElems(dom, placeholder) : Click(element)

InitHooks == InitCommon /\ dom \in {PlainDoc, EmptyDoc}

SpecHooks == InitHooks /\ [][NextHooks]_vars

\* the definition registered under the id was constructed with an onFocus
ConstructedWithOnFocus(id) ==
  \E cfg \in HookConfigs :
     cfg.id = id /\ cfg.onFocus # "" /\ getComponent(components, id) = Component(cfg)

\* C12: when selectElement changes the selection to an element that carries
\* data-component and whose registered definition was constructed with an
\* onFocus callback, the callback is invoked
C12_OnFocusOnSelection ==
  [][\A el \in Nodes :
       (/\ el \in PointerElems(dom, placeholder) /\ Click(el)
        /\ selectedElement' = el /\ selectedElement # el
        /\ ConstructedWithOnFocus(dom[el].comp))
       => selectFocuses(components, dom, selectedElement, el)]_vars

\* insertComponent reached the onInsert hook of its definition and the hook
\* threw
OnInsertThrew(call, d) ==
  /\ call.op = "insertComponent"
  /\ \E i \in 1..Len(call.log) :
        /\ call.log[i][1] = "onInsert"
        /\ OnInsert(components[call.comp], d, call.log[i][2]).threw

\* C13: when the onInsert hook of a definition throws, insertComponent lets
\* no exception escape, keeps the root it attached, returns it and makes it
\* a drag source
C13_HookFailuresContained ==
  [][OnInsertThrew(last', dom')
       => /\ ~last'.threw
          /\ last'.ret # 0 /\ InDoc(dom', last'.ret) /\ dom'[last'.ret].draggable]_vars

\* C14: creating and registering a definition never throws; a refused
\* attempt (duplicate id, missing id, name or content, no instance of
\* Component) returns false and leaves the registry as it was; and every
\* registered definition has a non-empty id, name and content
C14_RegistrationNeverThrows ==
  [][/\ last'.op = "register"
          => ~last'.threw /\ (~last'.result => components' = components)
     /\ \A id \in DOMAIN components' :
          /\ components'[id].id # "" /\ components'[id].name # ""
          /\ components'[id].content # ""]_vars

\* the content function of the definition yields markup without an element
RendersNothing(component) ==
  Markup(component.content, PropsOf(component)) = <<>>

\* C15: insertComponent of a definition whose content yields no root element
\* returns null and leaves the document exactly as it was: the target is in
\* place, nothing is appended, no bogus <br> is removed, no hook is called,
\* for a top-level and for a child insertion
C15_RenderingFailureAtomic ==
  [][(last'.op = "insertComponent" /\ RendersNothing(components[last'.comp]))
       => /\ last'.ret = 0 /\ ~last'.threw
          /\ dom' = dom /\ last'.log = <<>>]_vars

C15_Witness ==
  /\ last.op = "insertComponent" /\ last.comp = "note" /\ last.isChild
  /\ last.ret = 0
  /\ \E n \in Nodes : Contains(dom, last.target, n) /\ dom[n].tag = "br-bogus"

\* the schema defaults of a definition's descriptors, by property name
SchemaDefaults(propertyDefs) ==
  [nm \in {propertyDefs[i].name : i \in 1..Len(propertyDefs)} |->
     propertyDefs[CHOOSE i \in 1..Len(propertyDefs) :
                     propertyDefs[i].name = nm].default]

\* C16: right after insertComponent has created an instance,
\* _getPropertiesFromElement(instance, definition.properties) returns the
\* schema default of every descriptor: no default, the empty string, 0 and a
\* boolean included
C16_DefaultRoundTrip ==
  (last.op = "insertComponent" /\ last.ret # 0)
    => getPropertiesFromElement(dom[last.ret].props,
                                components[last.comp].properties)
         = SchemaDefaults(components[last.comp].properties)

C16_Witness ==
  /\ last.op = "insertComponent" /\ last.comp = "typed" /\ last.ret # 0
  /\ DOMAIN dom[last.ret].props # {}

-----------------------------------------------------------------------------
(* Styles on their own: styles are registered in any order and applied to and *)
(* removed from one element that is not the selected one.  A style and an     *)
(* inline style are objects from property name to value.                      *)

\* addStyle(name, style): Map.set keeps the place of a name already present
addStyle(sty, name, style) ==
  IF \E i \in 1..Len(sty) : sty[i].name = name
  THEN [i \in 1..Len(sty) |-> IF sty[i].name = name
                              THEN [name |-> name, style |-> style] ELSE sty[i]]
  ELSE Append(sty, [name |-> name, style |-> style])

\* this.styles.get(styleName), undefined without an entry
StyleOf(sty, name) ==
  IF \E i \in 1..Len(sty) : sty[i].name = name
  THEN sty[CHOOSE i \in 1..Len(sty) : sty[i].name = name].style
  ELSE Undef

\* the property names the CSS parser of the host knows, of those tried
CssProperties == {"color", "width"}

\* element.style after element.style.cssText = styleString, the string being
\* `${prop}:${value};` for each entry: the parser keeps the declarations that
\* name a CSS property
SetCssText(style) ==
  LET kept == SelectSeq(Entries(style), LAMBDA e : e[1] \in CssProperties)
  IN Obj([i \in 1..Len(kept) |-> kept[i][1]],
         [i \in 1..Len(kept) |-> Str(JsString(kept[i][2]))])

\* _stylesMatch(style1, style2)
stylesMatch(style1, style2) ==
  /\ Len(style1.keys) = Len(style2.keys)
  /\ \A i \in 1..Len(style1.keys) :
        \/ style1.vals[i] = Get(style2, style1.keys[i])
        \/ /\ Truthy(style1.vals[i]) /\ Truthy(Get(style2, style1.keys[i]))
           /\ JsString(style1.vals[i]) = JsString(Get(style2, style1.keys[i]))

\* getCurrentStyle(element): the first registered name whose declarations
\* match the inline style, or null
getCurrentStyle(sty, inline) ==
  IF \E i \in 1..Len(sty) : stylesMatch(sty[i].style, inline)
  THEN Str(sty[CHOOSE i \in 1..Len(sty) :
                  /\ stylesMatch(sty[i].style, inline)
                  /\ \A j \in 1..(i - 1) : ~stylesMatch(sty[j].style, inline)].name)
  ELSE Null

\* the inline style after applyStyle(styleName, element)
applyStyle(sty, name, inline) ==
  IF StyleOf(sty, name) = Undef THEN inline ELSE SetCssText(StyleOf(sty, name))

\* the declaration maps tried: empty, one and two declarations, equal maps
\* under two names, a camel-case key as in element.style
StyleInputs ==
  [name : {"primary", "danger"},
   style : {Obj(<<>>, <<>>), Obj(<<"color">>, <<Str("red")>>),
            Obj(<<"color", "width">>, <<Str("red"), Str("4px")>>),
            Obj(<<"fontSize">>, <<Str("12px")>>)}]

\* addStyle(name, style) called by the host
AddStyle(in) ==
  /\ styles' = addStyle(styles, in.name, in.style)
  /\ sres' = [op |-> "add"]
  /\ UNCHANGED <<components, dom, placeholder, selectedElement, drag, timers,
                 last, pdef, pel, pres, estyle, panel, inj, lay>>

\* applyStyle(name, element) followed by getCurrentStyle(element); nothing is
\* selected, so the panel is not rendered again
ApplyStyle(name) ==
  /\ selectedElement = 0
  /\ estyle' = applyStyle(styles, name, estyle)
  /\ sres' = [op |-> "apply", name |-> name, ok |-> StyleOf(styles, name) # Undef,
              current |-> getCurrentStyle(styles, estyle')]
  /\ UNCHANGED <<components, dom, placeholder, selectedElement, drag, timers,
                 last, pdef, pel, pres, styles, panel, inj, lay>>

\* removeStyles(element) followed by getCurrentStyle(element)
RemoveStyles ==
  /\ selectedElement = 0
  /\ estyle' = NoInline
  /\ sres' = [op |-> "remove", after |-> sres.op,
              current |-> getCurrentStyle(styles, NoInline)]
  /\ UNCHANGED <<components, dom, placeholder, selectedElement, drag, timers,
                 last, pdef, pel, pres, styles, panel, inj, lay>>

NextStyle ==
  \/ \E in \in StyleInputs : AddStyle(in)
  \/ \E name \in {"primary", "danger"} : ApplyStyle(name)
  \/ RemoveStyles

SpecStyle == Init /\ [][NextStyle]_vars

\* C17: getCurrentStyle right after applyStyle(n, e) of a registered name n
\* returns n, also when another name has the same declarations or the
\* declarations are empty; and removeStyles after applyStyle leaves the
\* element without inline style, for which getCurrentStyle reports no style
C17_StyleApplyRemove ==
  /\ (sres.op = "apply" /\ sres.ok) => sres.current = Str(sres.name)
  /\ (sres.op = "remove" /\ sres.after = "apply")
       => estyle = NoInline /\ sres.current = Null

-----------------------------------------------------------------------------
(* The panel at work: the catalog and styles are registered, a button is      *)
(* instantiated, elements are selected, and the select fields of the panel    *)
(* are changed.                                                               *)

\* the classes the option values of a descriptor name
OptionClasses(prop) ==
  UNION {ClassOf(prop.options[i]) : i \in 1..Len(prop.options)}

\* an onUpdate that adds the chosen class and removes none
OnUpdateAdding(component, propName, value, cls, prop) == cls \cup ClassOf(value)

\* the class list of the element after component.onUpdate(propName, value,
\* element, prop) of the button; the disabled, aria-pressed and type
\* attributes it also writes are read by no handler
OnUpdate(component, propName, value, cls, prop) ==
  IF component.onUpdate = "col"
  THEN IF propName \in {"colSize", "colSmSize", "colMdSize", "colLgSize", "colXlSize"}
       THEN (cls \ OptionClasses(prop)) \cup ClassOf(value)
       ELSE cls
  ELSE IF component.onUpdate # "button" THEN cls
  ELSE CASE propName = "btnStyle" -> (cls \ OptionClasses(prop)) \cup ClassOf(value)
         [] propName = "btnSize" -> (cls \ OptionClasses(prop)) \cup ClassOf(value)
         [] propName = "btnState" ->
              (cls \ {"active", "disabled"})
                \cup (IF value = Str("active") THEN {"active"} ELSE {})
         [] OTHER -> cls

\* onUpdate throws: the col hook calls classList.add(value) without a test,
\* a SyntaxError for the empty string, after the classes have been removed
OnUpdateThrows(component, propName, value) ==
  /\ component.onUpdate = "col"
  /\ propName \in {"colSize", "colSmSize", "colMdSize", "colLgSize", "colXlSize"}
  /\ JsString(value) = ""

\* the descriptor of a definition by property name
PropNamed(component, propName) ==
  component.properties[CHOOSE i \in 1..Len(component.properties) :
                          component.properties[i].name = propName]

\* the change handler of a select field: the panel was rendered for the
\* definition panel.comp, the user picks an option
PanelChange(propName, value) ==
  /\ panel.mode = "component" /\ selectedElement # 0
  /\ propName \in SeqToSet(panel.fields)
  /\ PropNamed(components[panel.comp], propName).type = "select"
  /\ value \in SeqToSet(PropNamed(components[panel.comp], propName).options)
  /\ dom' = NodeChange(
              [dom EXCEPT
                 ![selectedElement].props =
                    savePropertyToElement(@, propName, value),
                 ![selectedElement].cls =
                    OnUpdate(components[panel.comp], propName, value, @,
                             PropNamed(components[panel.comp], propName))],
              IF OnUpdateThrows(components[panel.comp], propName, value)
              THEN 0 ELSE Body)
  /\ panel' = IF OnUpdateThrows(components[panel.comp], propName, value)
               THEN panel
               ELSE updatePropertiesPanel(components, styles, dom',
                                          selectedElement, panel)
  /\ last' = [op |-> "change", prop |-> propName, value |-> value,
              threw |-> OnUpdateThrows(components[panel.comp], propName, value)]
  /\ UNCHANGED <<components, placeholder, selectedElement, drag, timers, pdef,
                 pel, pres, styles, estyle, sres, inj, lay>>

NextPanel ==
  \/ bs5_components_init
  \/ \E in \in StyleInputs : in.name = "primary" /\ AddStyle(in)
  \/ \E target \in InsertTargets(dom), rnd \in [1..1 -> Draws] :
        Has(components, "button") /\ InsertCall("button", target, FALSE, rnd)
  \/ \E element \in PointerElems(dom, placeholder) : Click(element)
  \/ \E propName \in {"btnType", "btnStyle", "btnSize", "btnState"},
        value \in {Str(v) : v \in SeqToSet(BtnStyles) \cup
                     {"", "btn-lg", "btn-sm", "active", "disabled", "button",
                      "submit", "reset"}} :
        PanelChange(propName, value)

SpecPanel == Init /\ [][NextPanel]_vars

\* C18: when updatePropertiesPanel has rendered the panel for the selected
\* element and at least one style is registered, the panel holds the style
\* selector, for a component instance as for a plain element
C18_StyleSelectorPresent ==
  [][(/\ (last'.op = "change" /\ ~last'.threw) \/ selectedElement' # selectedElement
      /\ selectedElement' # 0 /\ styles # NoStyles)
       => "style-selector" \in SeqToSet(panel'.content)]_vars

\* C19: a panel change of btnStyle on a button instance leaves the chosen
\* value as the only btnStyle class of the element, and a panel change of
\* btnSize, btnState or btnType leaves its btnStyle classes as they were
C19_ExclusiveStyleClass ==
  [][(last'.op = "change" /\ dom[selectedElement].comp = "button")
       => dom'[selectedElement].cls \cap SeqToSet(BtnStyles)
            = IF last'.prop = "btnStyle" THEN {last'.value.s}
              ELSE dom[selectedElement].cls \cap SeqToSet(BtnStyles)]_vars

C19_Witness ==
  /\ last.op = "change" /\ last.prop = "btnStyle" /\ last.value = Str("btn-danger")
  /\ dom[selectedElement].comp = "button"
  /\ "btn-danger" \in dom[selectedElement].cls
  /\ dom[selectedElement].props["data-prop-btnsize"] = "btn-lg"

-----------------------------------------------------------------------------
(* Drop targets: the catalog and a menu of the embedding application are      *)
(* registered and instantiated, and candidates are validated against the      *)
(* nodes of the document.                                                     *)

\* a definition without an `allowed` rule whose markup is a dropdown menu that
\* is the slot "filter"
MenuConfig ==
  [Config EXCEPT !.id = "menu", !.name = "Menu", !.content = "menu"]

\* isValidDropTarget(target, component) as the dragover and drop handlers call
\* it, on a node of the body
ValidateCall(target, id) ==
  /\ last' = [op |-> "isValidDropTarget", target |-> target, comp |-> id,
              result |-> isValidDropTarget(components, dom, target, components[id])]
  /\ UNCHANGED <<components, dom, placeholder, selectedElement, drag, timers,
                 pdef, pel, pres, more>>

NextTargets ==
  \/ bs5_components_init
  \/ RegisterCall(MenuConfig)
  \/ \E id \in {"dropdown", "menu"} \cap DOMAIN components,
        target \in InsertTargets(dom), isChild \in BOOLEAN,
        rnd \in [1..1 -> Draws] :
        InsertCall(id, target, isChild, rnd)
  \/ \E target \in SeqToSet(DocOrder(dom, Body)), id \in DOMAIN components :
        ValidateCall(target, id)

SpecTargets == Init /\ [][NextTargets]_vars

\* the configuration a registered id was constructed from
ConfigOf(id) == IF id = "menu" THEN MenuConfig
                ELSE Catalog[CHOOSE i \in 1..Len(Catalog) : Catalog[i].id = id]

\* the target without a text node: the element the decision is about
TargetElement(d, target) == IF IsText(d, target) THEN Parent(d, target) ELSE target

\* the target is a slot of an instance of a registered definition whose
\* configuration gives an `allowed` rule for the slot's name
RuleApplies(reg, d, T) ==
  /\ d[T].slot # ""
  /\ ClosestComponent(d, T) # 0
  /\ Has(reg, d[ClosestComponent(d, T)].comp)
  /\ Truthy(Get(ConfigOf(d[ClosestComponent(d, T)].comp).allowed, d[T].slot))

\* C20: when the target (a text node replaced by its parent) is not a slot
\* with an applicable allow-rule, isValidDropTarget(T, C) is what
\* C.restriction gives for it
C20_RestrictionFallback ==
  (/\ last.op = "isValidDropTarget"
   /\ ~RuleApplies(components, dom, TargetElement(dom, last.target)))
    => last.result = Restriction(components[last.comp], dom,
                                 TargetElement(dom, last.target))

-----------------------------------------------------------------------------
(* Grid columns: the col definition, the row-2-column template that fills     *)
(* its slot with two cols and rewrites them, and the panel edits of a col.    *)

Numerals == <<"1", "2", "3", "4", "5", "6", "7", "8", "9", "10", "11", "12">>

\* the option values of a size property: the twelve widths, after the empty
\* value "None" for every property but colSize
ColOptions(prefix, none) ==
  none \o [i \in 1..Len(Numerals) |-> Str(prefix \o Numerals[i])]

ColConfig ==
  [Config EXCEPT !.id = "col", !.name = "Column", !.category = "Layout",
                 !.content = "col", !.onUpdate = "col", !.restriction = "row",
                 !.editorStyle = "col",
                 !.properties =
                   <<Descriptor("colSize", "select", Str("col-4"),
                                ColOptions("col-", <<>>)),
                     Descriptor("colSmSize", "select", Str("col-sm-4"),
                                ColOptions("col-sm-", <<Str("")>>)),
                     Descriptor("colMdSize", "select", Str("col-md-4"),
                                ColOptions("col-md-", <<Str("")>>)),
                     Descriptor("colLgSize", "select", Str("col-lg-4"),
                                ColOptions("col-lg-", <<Str("")>>)),
                     Descriptor("colXlSize", "select", Str("col-xl-4"),
                                ColOptions("col-xl-", <<Str("")>>))>>]

RowTwoConfig ==
  [Config EXCEPT !.id = "row-2-column", !.name = "2 columns",
                 !.category = "Layout", !.content = "row",
                 !.children = Obj(<<"default">>, <<IdCount("col", 2)>>),
                 !.allowed = Obj(<<"default">>, <<Str("col")>>),
                 !.onInsert = "row-2-column"]

\* the values the panel edits choose: None and the width 6
ColEdits ==
  {<<"colSize", Str("col-6")>>, <<"colSmSize", Str("")>>,
   <<"colSmSize", Str("col-sm-6")>>, <<"colMdSize", Str("col-md-6")>>}

NextCols ==
  \/ \E cfg \in {ColConfig, RowTwoConfig} : RegisterCall(cfg)
  \/ \E id \in DOMAIN components, target \in InsertTargets(dom),
        isChild \in BOOLEAN :
        InsertCall(id, target, isChild, [i \in 1..3 |-> 0])
  \/ \E element \in PointerElems(dom, placeholder) : Click(element)
  \/ \E edit \in ColEdits : PanelChange(edit[1], edit[2])

SpecCols == Init /\ [][NextCols]_vars

\* the class list of a col agrees with what is read for a size property
ClassFollows(node, prop) ==
  LET value == ReadProperty(node.props, prop.name, prop)
  IN /\ Truthy(value) => JsString(value) \in node.cls
     /\ node.cls \cap OptionClasses(prop) \subseteq ClassOf(value)

\* C22: for every live col instance and each of its size properties, the
\* value _getPropertiesFromElement returns is in the class list when it is
\* not empty, and no other option value of the property is
C22_ClassesFollowProperties ==
  \A n \in Instances(dom) :
     dom[n].comp = "col" =>
       \A i \in 1..Len(ColConfig.properties) :
          ClassFollows(dom[n], ColConfig.properties[i])

-----------------------------------------------------------------------------
(* Instance ids over the life of an instance: a document saved earlier is     *)
(* loaded, its instances are reinitialized, and they are selected, edited     *)
(* and moved by drops.  (A style is applied to the style attribute alone,     *)
(* which the document model keeps apart from the nodes.)                      *)

\* <body><button class="btn btn-primary" data-component="button"></button>
\* <p></p></body> as the constructor leaves it: no definition is registered
\* yet, so only the paragraph has been made draggable
LegacyDoc ==
  [n \in Nodes |->
     CASE n = Html -> [Element("html", {}) EXCEPT !.kids = <<Body>>]
       [] n = Body -> [Element("body", {}) EXCEPT !.kids = <<3, 4>>]
       [] n = 3 -> [Element("button", {"btn", "btn-primary"}) EXCEPT !.comp = "button"]
       [] n = 4 -> NativeDraggable(Element("p", {}))
       [] OTHER -> FreeNode]

\* an instance id that is written whether or not the element carries one
StampInstanceId(node, instanceId) == [node EXCEPT !.inst = instanceId]

\* if (!element.hasAttribute("data-instance-id")) element.setAttribute(...)
EnsureInstanceId(node, instanceId) ==
  IF node.inst = 0 THEN [node EXCEPT !.inst = instanceId] ELSE node

\* the data-prop-* attributes after the defaults that are missing are saved
EnsureDefaults(attrs, component) ==
  [a \in DOMAIN attrs \cup DOMAIN StampProps(component) |->
     IF a \in DOMAIN attrs THEN attrs[a] ELSE StampProps(component)[a]]

RECURSIVE reinitializeEach(_, _, _, _)
\* componentElements.forEach(...) of reinitializeExistingComponents
reinitializeEach(reg, d, elements, rnd) ==
  IF elements = <<>> THEN d
  ELSE IF ~Has(reg, d[Head(elements)].comp)
  THEN reinitializeEach(reg, d, Tail(elements), rnd)
  ELSE reinitializeEach(
         reg,
         makeComponentDraggable(
           [d EXCEPT ![Head(elements)] =
              [EnsureInstanceId(@, DrawId(d, Head(rnd))) EXCEPT
                 !.props = EnsureDefaults(@, reg[d[Head(elements)].comp])]],
           Head(elements)),
         Tail(elements), Tail(rnd))

\* reinitializeExistingComponents(): the instances of registered definitions,
\* then every other element inside the body is made draggable
Reinitialize(rnd) ==
  /\ drag.kind = "none"
  /\ dom' = [n \in Nodes |->
               IF n \in BodyElems(dom) \ {Body} /\ dom[n].comp = ""
               THEN NativeDraggable(
                      reinitializeEach(components, dom,
                        SelectSeq(DocOrder(dom, Body),
                                  LAMBDA m : IsElem(dom, m) /\ dom[m].comp # ""),
                        rnd)[n])
               ELSE reinitializeEach(components, dom,
                      SelectSeq(DocOrder(dom, Body),
                                LAMBDA m : IsElem(dom, m) /\ dom[m].comp # ""),
                      rnd)[n]]
  /\ last' = Done("reinitialize", FALSE)
  /\ UNCHANGED <<components, placeholder, selectedElement, drag, timers, pdef,
                 pel, pres, more>>

InitIds == InitCommon /\ dom \in {PlainDoc, LegacyDoc}

NextIds ==
  \/ bs5_components_init
  \/ \E rnd \in [1..MaxNodes -> {0}] : Reinitialize(rnd)
  \/ \E target \in InsertTargets(dom) \ {placeholder}, rnd \in [1..1 -> Draws] :
        /\ Has(components, "button") /\ drag.kind = "none"
        /\ InsertCall("button", target, TRUE, rnd)
  \/ \E el \in BodyElems(dom) : DragStartElement(el)
  \/ \E element \in PointerElems(dom, placeholder) :
       \E caret \in CaretPositions(dom, element), position \in {"before", "center"} :
          DragOverAccepted(element, caret[1], caret[2], position)
  \/ DropInstance
  \/ DragEnd
  \/ TimerFire
  \/ \E element \in PointerElems(dom, placeholder) : Click(element)
  \/ PanelChange("btnStyle", Str("btn-danger"))

SpecIds == InitIds /\ [][NextIds]_vars

\* C23: an element that carries data-instance-id and stays in the document
\* carries the same data-instance-id after every step
C23_InstanceIdStable ==
  [][\A n \in Nodes :
       (IsElem(dom, n) /\ dom[n].inst # 0 /\ InDoc(dom, n) /\ InDoc(dom', n))
         => dom'[n].inst = dom[n].inst]_vars

C23_Witness ==
  /\ last.op = "reinitialize"
  /\ \E n \in Instances(dom) :
        /\ dom[n].inst # 0
        /\ Parent(dom, n) # Body
        /\ "data-prop-btnstyle" \in DOMAIN dom[n].props
        /\ dom[n].props["data-prop-btnstyle"] = "btn-danger"

-----------------------------------------------------------------------------
(* The order of one insertComponent call, read from its record of             *)
(* attachments and onInsert calls.                                            *)

\* C24: in one insertComponent call the root is attached first; an onInsert
\* of an instance comes after its attachment and after every attachment and
\* onInsert of the instances inside it; a child is attached after the
\* instance it lies in; the onInsert of the root comes last
C24_InstantiationOrdering ==
  (last.op = "insertComponent" /\ last.log # <<>>) =>
    /\ last.log[1][1] = "attach"
    /\ \A i, k \in DOMAIN last.log :
         /\ (last.log[i][1] = "onInsert" /\ last.log[k] = <<"attach", last.log[i][2]>>)
              => k < i
         /\ (/\ last.log[i][2] # last.log[k][2]
             /\ Contains(dom, last.log[i][2], last.log[k][2]))
              => IF last.log[i][1] = "onInsert" THEN k < i
                 ELSE last.log[k][1] = "attach" => i < k
    /\ \A i \in DOMAIN last.log :
         last.log[i][1] = "onInsert" =>
           \E k \in DOMAIN last.log : last.log[k] = <<"attach", last.log[i][2]>>
    /\ last.ret # 0 => last.log[Len(last.log)] = <<"onInsert", last.ret>>

C24_Witness ==
  /\ last.op = "insertComponent" /\ ~last.threw /\ last.ret # 0
  /\ Len(last.log) >= 6
  /\ \E i \in DOMAIN last.log :
        /\ last.log[i][1] = "onInsert" /\ last.log[i][2] # last.ret
        /\ Contains(dom, last.ret, last.log[i][2])

-----------------------------------------------------------------------------
(* Editor-style injection: definitions are registered while the editor        *)
(* document is not there yet, the document arrives, and the retries run.      *)

\* editor.getDoc() starts to return the document
DocReady ==
  /\ ~inj.doc
  /\ inj' = [inj EXCEPT !.doc = TRUE]
  /\ last' = Done("init", FALSE)
  /\ UNCHANGED <<components, dom, placeholder, selectedElement, drag, timers,
                 pdef, pel, pres, styles, estyle, sres, panel, lay>>

\* one pending setTimeout(inject, 100) fires
RetryFire ==
  /\ inj.retries > 0
  /\ inj' = injectEditorStyles([inj EXCEPT !.retries = @ - 1])
  /\ last' = Done("retry", FALSE)
  /\ UNCHANGED <<components, dom, placeholder, selectedElement, drag, timers,
                 pdef, pel, pres, styles, estyle, sres, panel, lay>>

\* definitions with an editor style, with the editor style of another
\* definition, and without one
StyledConfigs ==
  {ColConfig, LayersConfig, ButtonConfig,
   [Config EXCEPT !.id = "row", !.name = "Row", !.content = "row",
                  !.editorStyle = "row"],
   [Config EXCEPT !.id = "row-3-column", !.name = "3 columns", !.content = "row",
                  !.editorStyle = "row"]}

InitInject == InitManager /\ dom = PlainDoc /\ inj = NoInjection(FALSE)
              /\ lay = NoLayers

NextInject ==
  \/ \E cfg \in StyledConfigs : RegisterCall(cfg)
  \/ DocReady
  \/ RetryFire

SpecInject == InitInject /\ [][NextInject]_vars /\ WF_vars(RetryFire)

\* the injected stylesheet holds the editor style of every registered
\* definition exactly once, and nothing else
SheetComplete ==
  /\ \A id \in DOMAIN components :
        components[id].editorStyle # "" =>
          Cardinality({k \in DOMAIN inj.sheet :
                         inj.sheet[k] = components[id].editorStyle}) = 1
  /\ \A k \in DOMAIN inj.sheet :
        \E id \in DOMAIN components : components[id].editorStyle = inj.sheet[k]

\* C25: whenever the document is available and no retry is scheduled the
\* injected stylesheet is complete, and once the document is available the
\* scheduled retries run out
C25_InjectionConverges ==
  /\ [](inj.doc /\ inj.retries = 0 => SheetComplete)
  /\ (inj.doc ~> inj.retries = 0)

C25_Witness ==
  /\ last.op = "retry" /\ inj.doc /\ inj.retries = 0
  /\ Len(inj.sheet) >= 2
  /\ Cardinality(DOMAIN components) >= 4

-----------------------------------------------------------------------------
(* The timer of a dragend and the gesture that follows it.                    *)

\* C27: a drop with a component-id or instance-id payload whose latest
\* dragover was accepted finds the indicator that dragover created, in the
\* document and referenced by the manager, whatever timers of earlier
\* gestures have fired in between
C27_GraceDelayRace ==
  [][(/\ last'.op = "drop" /\ drag.over = "valid"
      /\ (drag.componentId # "" \/ drag.instanceId # 0))
       => placeholder # 0 /\ InDoc(dom, placeholder)]_vars

\* the drop-indicator elements of the document
Indicators(d) ==
  {n \in SeqToSet(DocOrder(d, Html)) : IsElem(d, n) /\ "drop-indicator" \in d[n].cls}

\* C28: the document holds at most one drop-indicator element, and one that
\* is in the document is the element the manager's placeholder field
\* references
C28_SingleIndicator ==
  /\ Cardinality(Indicators(dom)) <= 1
  /\ Indicators(dom) \subseteq {placeholder}

C28_Witness ==
  /\ drag.n = 2 /\ drag.over = "valid" /\ ~drag.dropped
  /\ Indicators(dom) = {placeholder}
  /\ Instances(dom) # {}

-----------------------------------------------------------------------------
(* The text and number fields of the properties panel: createPropertyField   *)
(* builds an input without a name attribute, so the change handler below is  *)
(* the only one on it (setupPropertyChangeListeners looks its inputs up by   *)
(* name and finds none).                                                     *)

\* a handler that replaces input it cannot parse by 0
FieldValueOrZero(type, text) ==
  IF type = "number" THEN Or(parseFloat(text), Num(0)) ELSE Str(text)

\* newValue of the change handler for e.target.value = text
FieldValue(type, text) ==
  IF type = "number" THEN parseFloat(text) ELSE Str(text)

\* the change handler of a text or number field: input that is not a number
\* returns before anything is written; otherwise the attribute is saved,
\* component.onUpdate (always a function) is called, the panel is rendered
\* again and the editor is told of the change
FieldInput(propName, text) ==
  /\ panel.mode = "component" /\ selectedElement # 0
  /\ propName \in SeqToSet(panel.fields)
  /\ PropNamed(components[panel.comp], propName).type \in {"text", "number"}
  /\ LET type == PropNamed(components[panel.comp], propName).type
         returned == type = "number" /\ FieldValue(type, text) = NaN
     IN /\ dom' = IF returned THEN dom
                  ELSE NodeChange(
                         [dom EXCEPT ![selectedElement].props =
                            savePropertyToElement(@, propName,
                                                  FieldValue(type, text))],
                         Body)
        /\ panel' = IF returned THEN panel
                    ELSE updatePropertiesPanel(components, styles, dom',
                                               selectedElement, panel)
        /\ last' = [op |-> "input", prop |-> propName, text |-> text,
                    type |-> type, updated |-> ~returned,
                    rendered |-> ~returned, threw |-> FALSE]
  /\ UNCHANGED <<components, placeholder, selectedElement, drag, timers, pdef,
                 pel, pres, styles, estyle, sres, inj, lay>>

\* what the user types into a field
FieldTexts == {"", "a", "5", "7"}

NextInput ==
  \/ RegisterCall(TypedConfig)
  \/ \E target \in InsertTargets(dom), rnd \in [1..1 -> Draws] :
        Has(components, "typed") /\ InsertCall("typed", target, FALSE, rnd)
  \/ \E element \in PointerElems(dom, placeholder) : Click(element)
  \/ \E propName \in {"title", "kind", "size", "width"}, text \in FieldTexts :
        FieldInput(propName, text)

SpecInput == Init /\ [][NextInput]_vars

\* C26: when the change handler of a number field receives input that does
\* not parse as a number, the document, and with it the data-prop attribute
\* of the element, stays as it was, onUpdate is not called, the panel is not
\* rendered again and nothing is thrown
C26_InvalidNumberNoOp ==
  [][(last'.op = "input" /\ last'.type = "number"
        /\ parseFloat(last'.text) = NaN)
       => /\ dom' = dom /\ panel' = panel
          /\ ~last'.updated /\ ~last'.rendered /\ ~last'.threw]_vars

C26_Witness ==
  /\ last.op = "input" /\ last.prop = "size" /\ last.text = "a"
  /\ selectedElement # 0 /\ dom[selectedElement].comp = "typed"
  /\ "data-prop-size" \in DOMAIN dom[selectedElement].props
  /\ dom[selectedElement].props["data-prop-size"] = "7"

-----------------------------------------------------------------------------
(* The layers-container: the closure its onFocus builds over the element,    *)
(* `layers` (z-index key -> layer element, here the element's place among    *)
(* the layer children) and `activeLayerIndex`, and the listeners that work   *)
(* on it. The keys are walked in ascending order, as for-in walks integer    *)
(* keys. The Component constructor stores no onFocus, so no handler of the   *)
(* manager runs it: OnFocusCall is a call of the configuration's function.   *)

MaxLayers == 3

Layer(z, active) == [z |-> z, active |-> active]

\* a container loaded with saved content: two layers, the upper one active
SavedLayers == [NoLayers EXCEPT !.els = <<Layer(1, FALSE), Layer(2, TRUE)>>]

Least(S) == CHOOSE k \in S : \A j \in S : k <= j
Greatest(S) == CHOOSE k \in S : \A j \in S : k >= j

\* makeCurrentLayerActive(): every tracked layer becomes cm-inactive, then
\* layers[activeLayerIndex], when there is one, becomes cm-active
makeCurrentLayerActive(l) ==
  LET has == l.activeLayerIndex \in DOMAIN l.layers
  IN [l EXCEPT
        !.els = [p \in DOMAIN l.els |->
                   IF has /\ p = l.layers[l.activeLayerIndex]
                   THEN Layer(l.els[p].z, TRUE)
                   ELSE IF \E k \in DOMAIN l.layers : l.layers[k] = p
                   THEN Layer(l.els[p].z, FALSE)
                   ELSE l.els[p]],
        !.attr = IF has THEN l.activeLayerIndex ELSE @]

\* addLayer(): the first free key from 1 upwards
addLayer(l) ==
  LET zIndex == Least((1..(Len(l.els) + 1)) \ DOMAIN l.layers)
  IN makeCurrentLayerActive(
       [l EXCEPT !.els = Append(@, Layer(zIndex, FALSE)),
                 !.layers = [k \in DOMAIN @ \cup {zIndex} |->
                               IF k = zIndex THEN Len(l.els) + 1 ELSE @[k]],
                 !.activeLayerIndex = zIndex])

\* removeLayer(): `layers.length === 0` is never true of the object; the new
\* active key is the first key below the removed one, else the first above
removeLayer(l) ==
  IF l.activeLayerIndex = -1 THEN l
  ELSE LET currentIndex == l.activeLayerIndex
           gone == l.layers[currentIndex]
           rest == DOMAIN l.layers \ {currentIndex}
           below == {k \in rest : k < currentIndex}
           above == {k \in rest : k > currentIndex}
       IN makeCurrentLayerActive(
            [l EXCEPT !.els = SubSeq(@, 1, gone - 1) \o SubSeq(@, gone + 1, Len(@)),
                      !.layers = [k \in rest |-> IF l.layers[k] > gone
                                                 THEN l.layers[k] - 1
                                                 ELSE l.layers[k]],
                      !.activeLayerIndex =
                         IF below # {} THEN Least(below)
                         ELSE IF above # {} THEN Least(above)
                         ELSE -1])

\* the else branch of moveLayer for the active key a and the key b before
\* it: the two entries of `layers` are exchanged, then the element now stored
\* under a is given the z-index b and the element now stored under b the
\* z-index a, that is, each element the key it was stored under before
ExchangeEntries(l, a, b) ==
  [l EXCEPT !.layers = [@ EXCEPT ![a] = l.layers[b], ![b] = l.layers[a]],
            !.els = [@ EXCEPT ![l.layers[b]].z = b, ![l.layers[a]].z = a]]

\* moveLayer(direction): the 'up' branch returns in the iteration of the
\* active key, where nextLayerData is still null; the other branch works on
\* the key before the active one and returns when there is none
moveLayer(l, direction) ==
  IF l.activeLayerIndex = -1 THEN l
  ELSE IF direction = Str("up") THEN l
  ELSE LET before == {k \in DOMAIN l.layers : k < l.activeLayerIndex}
       IN IF before = {} THEN l
          ELSE ExchangeEntries(l, l.activeLayerIndex, Greatest(before))

\* setActiveLayerIndex(index)
setActiveLayerIndex(l, index) ==
  IF index \in DOMAIN l.layers
  THEN makeCurrentLayerActive([l EXCEPT !.activeLayerIndex = index])
  ELSE l

\* onFocus(editor, element, component): element._listeners is undefined, the
\* closure is built from the layer elements present and the listeners are
\* attached
onFocus(l) ==
  LET zs == {l.els[p].z : p \in DOMAIN l.els}
      on == {p \in DOMAIN l.els : l.els[p].active}
  IN [l EXCEPT !.wired = TRUE,
               !.layers = [k \in zs |->
                             Greatest({p \in DOMAIN l.els : l.els[p].z = k})],
               !.activeLayerIndex = IF on = {} THEN -1
                                    ELSE l.els[Greatest(on)].z]

\* the object a listener receives as its first argument
CustomEvent(type, detail) == [t |-> "event", type |-> type, detail |-> detail]

OnFocusCall ==
  /\ ~lay.wired
  /\ lay' = onFocus(lay)
  /\ last' = Done("onFocus", FALSE)
  /\ UNCHANGED <<components, dom, placeholder, selectedElement, drag, timers,
                 pdef, pel, pres, styles, estyle, sres, panel, inj>>

\* onUpdate of the layers-container for a panel button or the activeLayer
\* select: the event is dispatched on the element and reaches the listeners
\* onFocus attached, if it has run; moveLayer is attached as the listener
\* itself, so its parameter is the event
LayerEvent(type, detail) ==
  /\ type = "add_layer" => Len(lay.els) < MaxLayers
  /\ lay' = IF ~lay.wired THEN lay
            ELSE CASE type = "add_layer" -> addLayer(lay)
                   [] type = "remove_layer" -> removeLayer(lay)
                   [] type = "move_layer" ->
                        moveLayer(lay, CustomEvent(type, detail))
                   [] OTHER -> setActiveLayerIndex(lay, detail)
  /\ last' = [op |-> type, detail |-> detail]
  /\ UNCHANGED <<components, dom, placeholder, selectedElement, drag, timers,
                 pdef, pel, pres, styles, estyle, sres, panel, inj>>

InitLayers ==
  /\ InitManager /\ inj = NoInjection(TRUE) /\ dom = PlainDoc
  /\ lay \in {NoLayers, SavedLayers}

NextLayers ==
  \/ OnFocusCall
  \/ LayerEvent("add_layer", 0)
  \/ LayerEvent("remove_layer", 0)
  \/ \E direction \in {"up", "down"} : LayerEvent("move_layer", direction)
  \/ \E index \in 1..MaxLayers : LayerEvent("set_active_layer_index", index)

SpecLayers == InitLayers /\ [][NextLayers]_vars

\* the layer elements that carry cm-active
ActiveLayers(l) == {p \in DOMAIN l.els : l.els[p].active}

\* the bookkeeping of the closure agrees with the layer elements
Bookkeeping(l) ==
  /\ \A k \in DOMAIN l.layers : l.els[l.layers[k]].z = k
  /\ \A p, q \in DOMAIN l.els : l.els[p].z = l.els[q].z => p = q
  /\ Cardinality(ActiveLayers(l)) = IF l.els = <<>> THEN 0 ELSE 1
  /\ \A p \in ActiveLayers(l) :
        /\ l.activeLayerIndex \in DOMAIN l.layers
        /\ l.layers[l.activeLayerIndex] = p

\* C29: once onFocus has wired the container, every entry layers[k] is an
\* element with z-index k, the z-indices of the layer elements are pairwise
\* distinct, exactly one layer is cm-active when there is a layer and none
\* otherwise, and the cm-active layer is layers[activeLayerIndex]
C29_LayersBookkeeping == lay.wired => Bookkeeping(lay)

\* the layer elements after the z-index of the elements at p and q is
\* exchanged
Exchanged(els, p, q) == [els EXCEPT ![p].z = els[q].z, ![q].z = els[p].z]

\* the element next above (up) or next below (down) the element at p in
\* z-order, 0 when there is none
Neighbour(els, p, up) ==
  LET side == {q \in DOMAIN els : IF up THEN els[q].z > els[p].z
                                        ELSE els[q].z < els[p].z}
  IN IF side = {} THEN 0
     ELSE CHOOSE q \in side : \A r \in side : IF up THEN els[q].z <= els[r].z
                                                    ELSE els[q].z >= els[r].z

\* C30: on a wired container whose bookkeeping is in order and that has an
\* active layer, Move Layer Up exchanges the z-index of the active layer and
\* the layer next above it, Move Layer Down that of the active layer and the
\* layer next below it, and nothing else; without such a neighbour the
\* layers stay as they are
C30_LayerReordering ==
  [][(/\ last'.op = "move_layer"
      /\ lay.wired /\ Bookkeeping(lay) /\ ActiveLayers(lay) # {})
       => LET a == CHOOSE p \in ActiveLayers(lay) : TRUE
              n == Neighbour(lay.els, a, last'.detail = "up")
          IN lay'.els = IF n = 0 THEN lay.els
                        ELSE Exchanged(lay.els, a, n)]_vars

====
